---- MODULE Spec2Model ----
(***************************************************************************)
(* A model of freepcb2pretty.py: the FreePCB record reader, the footprint  *)
(* (PCBmodule) constructor driven by it, the Library with its merge and    *)
(* strip passes, and the pad serialisation of Pin.kicad_sexp.              *)
(*                                                                         *)
(* Representation.  A physical line of the input is a record               *)
(*   [blank, key, value]: blank is "line.strip() is empty", key is the     *)
(* stripped text before the first ":" and value the stripped text after    *)
(* it.  A value is kept as a sequence of atoms: the characters of a name,  *)
(* or the whitespace-separated fields of a positional blob (what           *)
(* value.split() yields).  The empty value is <<>>.  FreePCBfile.File is   *)
(* a reversed list popped from its end; here File is kept in file order    *)
(* and popped from its head.                                               *)
(***************************************************************************)
EXTENDS Integers, Sequences, FiniteSets, TLC

VARIABLES
    Text,        \* the lines handed to FreePCBfile.__init__, in file order
    File,        \* FreePCBfile.File: the lines not yet popped
    Lineno,      \* FreePCBfile.Lineno
    key,         \* FreePCBfile.key
    value,       \* FreePCBfile.value
    recLine,     \* physical line (1-based) of the record key/value came from; 0 if none
    pc,          \* position of the parse: start, lib, header, body, done, error
    err,         \* the exception that ended the run: [kind, line], or NoError
    mod,         \* the PCBmodule under construction
    Modules,     \* Library.Modules of the library under construction
    dispatched,  \* the records handled so far: <<[line, by]>>, in handling order
    library,     \* main's library: [Modules, opts]
    filesRead,   \* number of input files main has opened
    opts,        \* args: [roundedpads, rpexceptions, rcexceptions]
    pins,        \* the Pin objects being serialised, in order
    sexp,        \* the pad entries kicad_sexp has produced so far
    arg,         \* the argument of the function under call
    ret,         \* what the call returned
    boxes,       \* what Pin.bounding_box returned for the pins, in order
    files        \* the output files main has opened: <<[path, written]>>, in order

readerVars == <<Text, File, Lineno, key, value, recLine>>
parseVars  == <<pc, err, mod, Modules, dispatched>>
mainVars   == <<library, filesRead>>
pinVars    == <<opts, pins, sexp>>
extVars    == <<arg, ret, boxes, files>>

(***************************************************************************)
(* Bounds of the model.                                                    *)
(***************************************************************************)
MaxLines == 5        \* lines of an input file of the parser specification
MaxReaderLines == 5  \* lines of an input file of the reader specification

(***************************************************************************)
(* Lines and values.                                                       *)
(***************************************************************************)
BlankLine == [blank |-> TRUE, key |-> "", value |-> <<>>]

Rec(k, v) == [blank |-> FALSE, key |-> k, value |-> v]

\* All sequences over S of length 0..n.
SeqUpTo(S, n) == UNION {[1..m -> S] : m \in 0..n}

(***************************************************************************)
(* FreePCBfile                                                             *)
(***************************************************************************)
\* The reader's fields as one value, so that the methods are operators.
Reader(f, n, k, v, l) == [File |-> f, Lineno |-> n, key |-> k, value |-> v, recLine |-> l]

\* "while self.File and not self.File[-1].strip (): pop; Lineno += 1"
RECURSIVE GobbleBlank(_)
GobbleBlank(r) ==
    IF r.File # <<>> /\ Head(r.File).blank
    THEN GobbleBlank([r EXCEPT !.File = Tail(@), !.Lineno = @ + 1])
    ELSE r

\* FreePCBfile.get_string: the reader after the call; raised tells whether the
\* call ended in "Line %d: expected value".
get_string(r, text) ==
    LET g == GobbleBlank(r) IN
    IF g.File # <<>>
    THEN [File    |-> Tail(g.File),
          Lineno  |-> g.Lineno + 1,
          key     |-> Head(g.File).key,
          value   |-> Head(g.File).value,
          recLine |-> Len(text) - Len(g.File) + 1,
          raised  |-> Head(g.File).value = <<>>]
    ELSE [File    |-> g.File,
          Lineno  |-> g.Lineno,
          key     |-> "eof",
          value   |-> <<>>,
          recLine |-> 0,
          raised  |-> FALSE]

\* FreePCBfile.at_end: the reader after the call, and the value returned.
at_end(r) ==
    LET g == GobbleBlank(r) IN
    [File |-> g.File, Lineno |-> g.Lineno, result |-> g.File = <<>>]

\* The reader held in the variables.
Cur == Reader(File, Lineno, key, value, recLine)

NoError == [kind |-> "", line |-> 0]

\* PCBmodule.__init__ before its first loop; start is the physical line of the
\* record that was current when the constructor was entered.
NewModule(start) ==
    [Name |-> <<>>, Author |-> <<>>, Source |-> <<>>, Description |-> <<>>,
     Units |-> <<>>, SelectionRect |-> <<>>, RefText |-> <<>>, ValText |-> <<>>,
     Centroid |-> <<"0", "0", "0", "0">>, Graphics |-> <<>>, UserText |-> <<>>,
     start |-> start]

NoModule == NewModule(0)

(***************************************************************************)
(* The reader on its own: any interleaving of get_string and at_end.       *)
(***************************************************************************)
ReaderAlphabet ==
    { BlankLine, Rec("name", <<"A">>), Rec("units", <<>>) }

InitParseIdle ==
    /\ pc = "idle"
    /\ err = NoError
    /\ mod = NoModule
    /\ Modules = <<>>
    /\ dispatched = <<>>

\* An optional field: None is <<>>, an object x is <<x>>.
None == <<>>

Some(x) == <<x>>

\* Library (): no modules, opts None.
NewLibrary == [Modules |-> <<>>, opts |-> None]

\* args when no rounding option and no exception file is given.
DefaultOpts == [roundedpads |-> None, rpexceptions |-> <<>>, rcexceptions |-> <<>>]

InitMainIdle ==
    /\ library = NewLibrary
    /\ filesRead = 0

InitPinIdle ==
    /\ opts = DefaultOpts
    /\ pins = <<>>
    /\ sexp = <<>>

InitExtIdle ==
    /\ arg = <<>>
    /\ ret = <<>>
    /\ boxes = <<>>
    /\ files = <<>>

\* FreePCBfile.__init__
InitReader ==
    /\ Text \in SeqUpTo(ReaderAlphabet, MaxReaderLines)
    /\ File = Text
    /\ Lineno = 1
    /\ key = ""
    /\ value = <<>>
    /\ recLine = 0
    /\ InitParseIdle
    /\ InitMainIdle
    /\ InitPinIdle
    /\ InitExtIdle

\* A call of get_string by any client; a raise ends the run.
GetString ==
    /\ pc = "idle"
    /\ LET g == get_string(Cur, Text) IN
        /\ File' = g.File
        /\ Lineno' = g.Lineno
        /\ key' = g.key
        /\ value' = g.value
        /\ recLine' = g.recLine
        /\ pc' = IF g.raised THEN "error" ELSE "idle"
        /\ err' = IF g.raised THEN [kind |-> "MalformedRecord", line |-> g.Lineno - 1]
                  ELSE err
    /\ UNCHANGED <<Text, mod, Modules, dispatched, mainVars, pinVars, extVars>>

\* A call of at_end by any client.
AtEnd ==
    /\ pc = "idle"
    /\ LET e == at_end(Cur) IN
        /\ File' = e.File
        /\ Lineno' = e.Lineno
    /\ UNCHANGED <<Text, key, value, recLine, parseVars, mainVars, pinVars, extVars>>

(***************************************************************************)
(* Numbers.  float(tok): the numerals the inputs use, and their values.    *)
(***************************************************************************)
NumeralValue ==
    ("0" :> 0) @@ ("1" :> 1) @@ ("2" :> 2) @@ ("3" :> 3) @@ ("4" :> 4) @@
    ("5" :> 5) @@ ("6" :> 6) @@ ("7" :> 7) @@ ("90" :> 90) @@ ("180" :> 180) @@
    ("270" :> 270)

\* float(i) succeeds
IsFloat(tok) == tok \in DOMAIN NumeralValue

\* "[float(i) for i in value.split ()]" does not raise ValueError
AllFloat(v) == \A i \in 1..Len(v) : IsFloat(v[i])

Floats(v) == [i \in 1..Len(v) |-> NumeralValue[v[i]]]

(***************************************************************************)
(* parse_string at the level of fields: the leading string of a composite  *)
(* value and what follows it (value[length:]).                             *)
(***************************************************************************)
parse_string_fields(v) == [string |-> Head(v), rest |-> Tail(v)]

(***************************************************************************)
(* TextProperties                                                          *)
(***************************************************************************)
TextProperties(units, type, str) ==
    [Units |-> units, TextType |-> type, Str |-> str,
     x |-> "0", y |-> "0", Height |-> "1.27", Angle |-> "0", LineWidth |-> "0.15",
     Mirrored |-> "False", LayerNo |-> "0", Layer |-> "F.SilkS"]

(***************************************************************************)
(* Pad                                                                     *)
(***************************************************************************)
\* Pad.__init__: the pad, or the exception it raises.
Pad(v, lineno) ==
    IF ~AllFloat(v) \/ Len(v) < 4
    THEN [err |-> [kind |-> "MalformedField", line |-> lineno - 1], obj |-> None]
    ELSE LET f == IF Len(v) = 4 THEN Append(Floats(v), 0) ELSE Floats(v) IN
         [err |-> NoError,
          obj |-> Some([Shape |-> f[1], Width |-> f[2], Len1 |-> f[3],
                        Len2 |-> f[4], CornRad |-> f[5]])]

(***************************************************************************)
(* Pin                                                                     *)
(***************************************************************************)
PadKeys == {"top_pad", "inner_pad", "bottom_pad",
            "top_mask", "top_paste", "bottom_mask", "bottom_paste"}

\* Pin.__init__
NewPin(modname) ==
    [ModName |-> modname, Name |-> "", DrillDiam |-> 0, Coords |-> <<>>, Angle |-> 0,
     TopPad |-> None, InnerPad |-> None, BottomPad |-> None, Units |-> <<"NM">>]

\* The loop "while file_in.key in [top_pad, ...]" of Pin.create_from_freepcb:
\* c is [r, err, obj, lines], the reader, the error raised, the pin and the
\* physical lines handled so far.
RECURSIVE PinPads(_, _)
PinPads(c, text) ==
    IF c.r.key \notin PadKeys
    THEN c
    ELSE LET p == IF c.r.key \in {"top_pad", "inner_pad", "bottom_pad"}
                  THEN Pad(c.r.value, c.r.Lineno)
                  ELSE [err |-> NoError, obj |-> None]
             pin == CASE c.r.key = "top_pad"    -> [c.obj EXCEPT !.TopPad = p.obj]
                      [] c.r.key = "inner_pad"  -> [c.obj EXCEPT !.InnerPad = p.obj]
                      [] c.r.key = "bottom_pad" -> [c.obj EXCEPT !.BottomPad = p.obj]
                      [] OTHER                  -> c.obj
             g == get_string(c.r, text)
             seen == Append(c.lines, c.r.recLine)
         IN  IF p.err # NoError
             THEN [c EXCEPT !.err = p.err, !.lines = seen]
             ELSE IF g.raised
             THEN [r |-> g, err |-> [kind |-> "MalformedRecord", line |-> g.Lineno - 1],
                   obj |-> pin, lines |-> seen]
             ELSE PinPads([r |-> g, err |-> NoError, obj |-> pin, lines |-> seen], text)

\* Pin.create_from_freepcb
PinFromFreepcb(modname, r, units, text) ==
    LET ps == parse_string_fields(r.value)
        v  == ps.rest
        f  == Floats(v)
        pin == [NewPin(modname) EXCEPT !.Units = units, !.Name = ps.string,
                                       !.DrillDiam = f[1], !.Coords = <<f[2], f[3]>>,
                                       !.Angle = f[4]]
        g  == get_string(r, text)
    IN  IF ~AllFloat(v) \/ Len(v) # 4
        THEN [r |-> r, err |-> [kind |-> "MalformedField", line |-> r.Lineno - 1],
              obj |-> NewPin(modname), lines |-> <<r.recLine>>]
        ELSE IF g.raised
        THEN [r |-> g, err |-> [kind |-> "MalformedRecord", line |-> g.Lineno - 1],
              obj |-> pin, lines |-> <<r.recLine>>]
        ELSE PinPads([r |-> g, err |-> NoError, obj |-> pin, lines |-> <<r.recLine>>], text)

(***************************************************************************)
(* Polyline                                                                *)
(***************************************************************************)
\* Polyline.__init__
NewPolyline ==
    [Points |-> <<>>, Style |-> <<>>, Linewidth |-> 0, Closed |-> FALSE,
     Layer |-> "F.SilkS", Units |-> <<"NM">>]

\* The loop "while key == next_corner" of Polyline.create_from_freepcb.
RECURSIVE PolyCorners(_, _)
PolyCorners(c, text) ==
    IF c.r.key # "next_corner"
    THEN c
    ELSE LET v == c.r.value
             f == Floats(v)
             pl == [c.obj EXCEPT !.Points = Append(@, <<f[1], f[2]>>),
                                 !.Style = Append(@, f[3])]
             g == get_string(c.r, text)
             seen == Append(c.lines, c.r.recLine)
         IN  IF ~AllFloat(v) \/ Len(v) # 3
             THEN [c EXCEPT !.err = [kind |-> "MalformedField", line |-> c.r.Lineno - 1],
                            !.lines = seen]
             ELSE IF g.raised
             THEN [r |-> g, err |-> [kind |-> "MalformedRecord", line |-> g.Lineno - 1],
                   obj |-> pl, lines |-> seen]
             ELSE PolyCorners([r |-> g, err |-> NoError, obj |-> pl, lines |-> seen], text)

\* Polyline.create_from_freepcb
PolylineFromFreepcb(r, units, text) ==
    LET v == r.value
        f == Floats(v)
        pl == [NewPolyline EXCEPT !.Units = units, !.Linewidth = f[1],
                                  !.Points = <<(<<f[2], f[3]>>)>>]
        g == get_string(r, text)
        c == PolyCorners([r |-> g, err |-> NoError, obj |-> pl, lines |-> <<r.recLine>>],
                         text)
        h == get_string(c.r, text)
    IN  IF ~AllFloat(v) \/ Len(v) # 3
        THEN [r |-> r, err |-> [kind |-> "MalformedField", line |-> r.Lineno - 1],
              obj |-> NewPolyline, lines |-> <<r.recLine>>]
        ELSE IF g.raised
        THEN [r |-> g, err |-> [kind |-> "MalformedRecord", line |-> g.Lineno - 1],
              obj |-> pl, lines |-> <<r.recLine>>]
        ELSE IF c.err # NoError \/ c.r.key # "close_polyline"
        THEN c
        ELSE IF h.raised
        THEN [r |-> h, err |-> [kind |-> "MalformedRecord", line |-> h.Lineno - 1],
              obj |-> c.obj, lines |-> Append(c.lines, c.r.recLine)]
        ELSE [r |-> h, err |-> NoError,
              obj |-> [c.obj EXCEPT !.Closed = TRUE, !.Points = Append(@, c.obj.Points[1])],
              lines |-> Append(c.lines, c.r.recLine)]

(***************************************************************************)
(* Library.__init__ and PCBmodule.__init__ driven by the reader.  One      *)
(* action is one evaluation of a loop condition together with the loop     *)
(* body (or the loop exit) it leads to.                                    *)
(***************************************************************************)
ParseAlphabet ==
    { BlankLine,
      Rec("name", <<"A">>),
      Rec("author", <<"x">>),
      Rec("units", <<"NM">>),
      Rec("sel_rect", <<"0", "0", "1", "1">>),
      Rec("ref_text", <<"1", "0", "0", "0", "1">>),
      Rec("foo", <<"1">>),
      Rec("pin", <<"1", "0", "0", "0", "0">>),
      Rec("top_pad", <<"1", "1", "1", "1">>) }

InitParse ==
    /\ Text \in SeqUpTo(ParseAlphabet, MaxLines)
    /\ File = Text
    /\ Lineno = 1
    /\ key = ""
    /\ value = <<>>
    /\ recLine = 0
    /\ pc = "start"
    /\ err = NoError
    /\ mod = NoModule
    /\ Modules = <<>>
    /\ dispatched = <<>>
    /\ InitMainIdle
    /\ InitPinIdle
    /\ InitExtIdle

\* The reader fields of the variables become those of r.
SetReader(r) ==
    /\ File' = r.File
    /\ Lineno' = r.Lineno
    /\ key' = r.key
    /\ value' = r.value
    /\ recLine' = r.recLine

\* An exception leaves the constructors: the run ends.
Raise(e) ==
    /\ pc' = "error"
    /\ err' = e

Handled(by) == Append(dispatched, [line |-> recLine, by |-> by])

\* "file_in.get_string ()" as the last statement of a loop body that stays in
\* the loop at position p.
Advance(r, p) ==
    LET g == get_string(r, Text) IN
    /\ SetReader(g)
    /\ IF g.raised
       THEN Raise([kind |-> "MalformedRecord", line |-> g.Lineno - 1])
       ELSE pc' = p /\ err' = err

\* Library.__init__, line 197: the first get_string.
LibraryStart ==
    /\ pc = "start"
    /\ Advance(Cur, "lib")
    /\ UNCHANGED <<Text, mod, Modules, dispatched, mainVars, pinVars, extVars>>

\* Library.__init__, line 198: "while not file_in.at_end ()", entering
\* PCBmodule.__init__ or leaving the loop.
LibraryLoop ==
    /\ pc = "lib"
    /\ LET e == at_end(Cur) IN
        /\ File' = e.File
        /\ Lineno' = e.Lineno
        /\ pc' = IF e.result THEN "done" ELSE "header"
        /\ mod' = IF e.result THEN mod ELSE NewModule(recLine)
    /\ UNCHANGED <<Text, key, value, recLine, err, Modules, dispatched, mainVars, pinVars, extVars>>

\* "while not file_in.key == stop and not file_in.at_end ()": whether the loop
\* body runs, and the reader after the condition (at_end is not called when the
\* key is the stop key).
LoopCond(stop) ==
    IF key = stop
    THEN [go |-> FALSE, r |-> Cur]
    ELSE LET e == at_end(Cur) IN
         [go |-> ~e.result, r |-> [Cur EXCEPT !.File = e.File, !.Lineno = e.Lineno]]

HeaderKeys == {"name", "author", "source", "description"}

\* Header loop, lines 279-291: one of the four header keys.
HeaderField ==
    /\ pc = "header"
    /\ LoopCond("units").go
    /\ key \in HeaderKeys
    /\ mod' = CASE key = "name"        -> [mod EXCEPT !.Name = value]
                [] key = "author"      -> [mod EXCEPT !.Author = value]
                [] key = "source"      -> [mod EXCEPT !.Source = value]
                [] key = "description" -> [mod EXCEPT !.Description = value]
    /\ Advance(LoopCond("units").r, "header")
    /\ dispatched' = Handled("Header")
    /\ UNCHANGED <<Text, Modules, mainVars, pinVars, extVars>>

\* Header loop, lines 288-290: any other key raises.
HeaderUnexpected ==
    /\ pc = "header"
    /\ LoopCond("units").go
    /\ key \notin HeaderKeys
    /\ SetReader(LoopCond("units").r)
    /\ Raise([kind |-> "UnexpectedKey", line |-> LoopCond("units").r.Lineno - 1])
    /\ dispatched' = Handled("Header")
    /\ UNCHANGED <<Text, mod, Modules, mainVars, pinVars, extVars>>

\* The header loop ends; line 293, "assert self.Name"; lines 296-302.
HeaderEnd ==
    /\ pc = "header"
    /\ ~LoopCond("units").go
    /\ SetReader(LoopCond("units").r)
    /\ IF mod.Name = <<>>
       THEN Raise([kind |-> "MissingRequiredField", line |-> 0])
       ELSE pc' = "body" /\ err' = err
    /\ UNCHANGED <<Text, mod, Modules, dispatched, mainVars, pinVars, extVars>>

\* The five positional fields of ref_text and value_text (params[0..4]), and
\* the seven of text (params[0..6]); a shorter list raises IndexError.
TextFromParams(t, params, n) ==
    IF n = 5
    THEN [t EXCEPT !.Height = params[1], !.x = params[2], !.y = params[3],
                   !.Angle = params[4], !.LineWidth = params[5]]
    ELSE [t EXCEPT !.Height = params[1], !.x = params[2], !.y = params[3],
                   !.Angle = params[4], !.LineWidth = params[5],
                   !.Mirrored = params[6], !.LayerNo = params[7]]

SimpleBodyKeys == {"units", "sel_rect", "centroid", "adhesive", "n_pins"}

TextBodyKeys == {"ref_text", "value_text", "text"}

GraphicBodyKeys == {"outline_polyline", "pin"}

\* Body loop, lines 305-310 and 354-363: a key whose branch stores the value
\* or ignores it, then reads on.
BodyField ==
    /\ pc = "body"
    /\ LoopCond("name").go
    /\ key \in SimpleBodyKeys
    /\ mod' = CASE key = "units"    -> [mod EXCEPT !.Units = value]
                [] key = "sel_rect" -> [mod EXCEPT !.SelectionRect = value]
                [] key = "centroid" -> [mod EXCEPT !.Centroid = value]
                [] OTHER            -> mod
    /\ Advance(LoopCond("name").r, "body")
    /\ dispatched' = Handled("Body")
    /\ UNCHANGED <<Text, Modules, mainVars, pinVars, extVars>>

\* Body loop, lines 311-353: ref_text, value_text, text.
BodyText ==
    /\ pc = "body"
    /\ LoopCond("name").go
    /\ key \in TextBodyKeys
    /\ LET ps == parse_string_fields(value)
           params == IF key = "text" THEN ps.rest ELSE value
           need == IF key = "text" THEN 7 ELSE 5
           t == CASE key = "ref_text"   -> TextProperties(mod.Units, "reference", <<"REF**">>)
                  [] key = "value_text" -> TextProperties(mod.Units, "value", mod.Name)
                  [] key = "text"       -> TextProperties(mod.Units, "user", <<ps.string>>)
       IN  IF Len(params) < need
           THEN /\ SetReader(LoopCond("name").r)
                /\ Raise([kind |-> "MalformedField", line |-> 0])
                /\ mod' = mod
           ELSE /\ mod' = CASE key = "ref_text" ->
                                 [mod EXCEPT !.RefText = Some(TextFromParams(t, params, need))]
                            [] key = "value_text" ->
                                 [mod EXCEPT !.ValText = Some(TextFromParams(t, params, need))]
                            [] key = "text" ->
                                 [mod EXCEPT !.UserText =
                                     Append(@, TextFromParams(t, params, need))]
                /\ Advance(LoopCond("name").r, "body")
    /\ dispatched' = Handled("Body")
    /\ UNCHANGED <<Text, Modules, mainVars, pinVars, extVars>>

\* Body loop, lines 360-361 and 364-365: outline_polyline and pin hand the
\* reader to Polyline.create_from_freepcb and Pin.create_from_freepcb.
BodyGraphic ==
    /\ pc = "body"
    /\ LoopCond("name").go
    /\ key \in GraphicBodyKeys
    /\ LET c == IF key = "pin"
                THEN PinFromFreepcb(mod.Name, LoopCond("name").r, mod.Units, Text)
                ELSE PolylineFromFreepcb(LoopCond("name").r, mod.Units, Text)
           by == IF key = "pin" THEN "Pin" ELSE "Polyline"
       IN  /\ SetReader(c.r)
           /\ IF c.err # NoError
              THEN Raise(c.err) /\ mod' = mod
              ELSE pc' = "body" /\ err' = err
                   /\ mod' = [mod EXCEPT !.Graphics = Append(@, c.obj)]
           /\ dispatched' = dispatched \o [i \in 1..Len(c.lines) |->
                                              [line |-> c.lines[i], by |-> by]]
    /\ UNCHANGED <<Text, Modules, mainVars, pinVars, extVars>>

\* Body loop, lines 366-368: any other key raises.
BodyUnexpected ==
    /\ pc = "body"
    /\ LoopCond("name").go
    /\ key \notin SimpleBodyKeys \cup TextBodyKeys \cup GraphicBodyKeys
    /\ SetReader(LoopCond("name").r)
    /\ Raise([kind |-> "UnexpectedKey", line |-> LoopCond("name").r.Lineno - 1])
    /\ dispatched' = Handled("Body")
    /\ UNCHANGED <<Text, mod, Modules, mainVars, pinVars, extVars>>

\* Mutant of ModuleComplete: the assert on RefText is left out.
ModuleCompleteNoRefText(m) == m.SelectionRect # <<>>

\* The post-conditions of PCBmodule.__init__, lines 373-374.
ModuleComplete(m) == m.SelectionRect # <<>> /\ m.RefText # <<>>

\* The body loop ends; "assert self.SelectionRect", "assert self.RefText";
\* Library.__init__ line 199 appends the module that was built.
BodyEnd ==
    /\ pc = "body"
    /\ ~LoopCond("name").go
    /\ SetReader(LoopCond("name").r)
    /\ IF ModuleComplete(mod)
       THEN pc' = "lib" /\ err' = err /\ Modules' = Append(Modules, mod)
       ELSE Raise([kind |-> "MissingRequiredField", line |-> 0]) /\ Modules' = Modules
    /\ UNCHANGED <<Text, mod, dispatched, mainVars, pinVars, extVars>>

(***************************************************************************)
(* Library.__iadd__, Library.strip_lmn and the loading loop of main.       *)
(***************************************************************************)
MaxModules == 2   \* footprints of one input file of the library specification
MaxFiles == 2     \* input files given to main

\* Mutant of iadd: the inner loop looks at the first module of other only.
iadd_first_only(self, other) ==
    IF \E i \in 1..Len(self.Modules) :
          other.Modules # <<>> /\ self.Modules[i].Name = other.Modules[1].Name
    THEN [raised |-> TRUE, lib |-> self]
    ELSE [raised |-> FALSE,
          lib |-> [Modules |-> self.Modules \o other.Modules, opts |-> other.opts]]

\* Library.__iadd__: the library after "self += other", or the raise.
iadd(self, other) ==
    IF \E i \in 1..Len(self.Modules), j \in 1..Len(other.Modules) :
          self.Modules[i].Name = other.Modules[j].Name
    THEN [raised |-> TRUE, lib |-> self]
    ELSE [raised |-> FALSE,
          lib |-> [Modules |-> self.Modules \o other.Modules, opts |-> other.opts]]

LMN == {"L", "M", "N", "l", "m", "n"}

\* Mutant of strip_lmn: the stripped name is written into the pins too.
strip_lmn_pins(m) ==
    IF m.Name[Len(m.Name)] \in LMN
    THEN [m EXCEPT !.Name = SubSeq(@, 1, Len(@) - 1),
                   !.Graphics = [i \in 1..Len(@) |->
                                   IF "ModName" \in DOMAIN @[i]
                                   THEN [@[i] EXCEPT !.ModName = SubSeq(m.Name, 1, Len(m.Name) - 1)]
                                   ELSE @[i]]]
    ELSE m

\* PCBmodule.strip_lmn; Name[-1] of an empty name raises IndexError.
strip_lmn(m) ==
    IF m.Name[Len(m.Name)] \in LMN
    THEN [m EXCEPT !.Name = SubSeq(@, 1, Len(@) - 1)]
    ELSE m

\* The input files of the library specification: footprints that hold the
\* required records, then a trailer.
LibNames == { <<"A", "L">>, <<"A", "M">>, <<"L">> }

GoodBlock(n) ==
    << Rec("name", n),
       Rec("units", <<"NM">>),
       Rec("sel_rect", <<"0", "0", "1", "1">>),
       Rec("ref_text", <<"1", "0", "0", "0", "1">>) >>

Trailers ==
    { << Rec("pin", <<"1", "0", "0", "0", "0">>), Rec("top_pad", <<"1", "1", "1", "1">>) >>,
      << Rec("foo", <<"1">>), Rec("pin", <<"1", "0", "0", "0", "0">>) >>,
      << Rec("name", <<"A">>), Rec("foo", <<"1">>), Rec("pin", <<"1", "0", "0", "0", "0">>) >> }

RECURSIVE Blocks(_)
Blocks(ns) == IF ns = <<>> THEN <<>> ELSE GoodBlock(Head(ns)) \o Blocks(Tail(ns))

LibFiles == { Blocks(ns) \o t : ns \in SeqUpTo(LibNames, MaxModules), t \in Trailers }

\* main, lines 1003-1008: the empty library; the first file is opened and
\* wrapped in a FreePCBfile; Library.__init__ is about to run on it.
InitLib ==
    /\ Text \in LibFiles
    /\ File = Text
    /\ Lineno = 1
    /\ key = ""
    /\ value = <<>>
    /\ recLine = 0
    /\ pc = "start"
    /\ err = NoError
    /\ mod = NoModule
    /\ Modules = <<>>
    /\ dispatched = <<>>
    /\ library = NewLibrary
    /\ filesRead = 1
    /\ InitPinIdle
    /\ InitExtIdle

\* main, line 1009: "library += sublibrary".
MainMerge ==
    /\ pc = "done"
    /\ filesRead > 0
    /\ LET r == iadd(library, [Modules |-> Modules, opts |-> Some(opts)]) IN
        /\ library' = r.lib
        /\ IF r.raised
           THEN Raise([kind |-> "DuplicateName", line |-> 0])
           ELSE pc' = "merged" /\ err' = err
    /\ UNCHANGED <<readerVars, mod, Modules, dispatched, filesRead, pinVars, extVars>>

\* main, lines 1004-1008: the next file is opened and wrapped.
MainOpen ==
    /\ pc = "merged"
    /\ filesRead < MaxFiles
    /\ Text' \in LibFiles
    /\ File' = Text'
    /\ Lineno' = 1
    /\ key' = ""
    /\ value' = <<>>
    /\ recLine' = 0
    /\ pc' = "start"
    /\ mod' = NoModule
    /\ Modules' = <<>>
    /\ dispatched' = <<>>
    /\ filesRead' = filesRead + 1
    /\ UNCHANGED <<err, library, pinVars, extVars>>

\* main, lines 1021-1022: Library.strip_lmn.
MainStripLmn ==
    /\ pc = "merged"
    /\ IF \E i \in 1..Len(library.Modules) : library.Modules[i].Name = <<>>
       THEN Raise([kind |-> "IndexError", line |-> 0]) /\ library' = library
       ELSE /\ library' = [library EXCEPT !.Modules =
                              [i \in 1..Len(@) |-> strip_lmn(@[i])]]
            /\ pc' = "stripped"
            /\ err' = err
    /\ UNCHANGED <<readerVars, mod, Modules, dispatched, filesRead, pinVars, extVars>>

(***************************************************************************)
(* Pin.kicad_sexp.  Millimetres are kept in fixed point, as a whole number *)
(* of nanometres (1e-6 mm), so that to_mm is exact on whole inputs.        *)
(***************************************************************************)
PAD_NONE == 0
PAD_ROUND == 1
PAD_SQUARE == 2
PAD_RECT == 3
PAD_RRECT == 4
PAD_OVAL == 5
PAD_OCTAGON == 6

MaxShape == 7   \* pad shape codes range over 0..MaxShape
MaxCoord == 1   \* pin coordinates range over 0..MaxCoord

\* to_mm: None for a unit it does not know (the bare "return").
to_mm(n, units) ==
    CASE units = <<"NM">>  -> Some(n)
      [] units = <<"MM">>  -> Some(n * 1000000)
      [] units = <<"MIL">> -> Some(n * 25400)
      [] OTHER             -> None

\* regex.match (name) for a pattern without metacharacters: the pattern is
\* found at the start of the name.
Match(regex, name) ==
    /\ Len(regex) <= Len(name)
    /\ SubSeq(name, 1, Len(regex)) = regex

\* Lines 681-688.
can_round_pads(pin, o) ==
    ~\E i \in 1..Len(o.rpexceptions) : Match(o.rpexceptions[i], pin.ModName)

can_round_center(pin, o) ==
    ~\E i \in 1..Len(o.rcexceptions) : Match(o.rcexceptions[i], pin.ModName)

\* Mutant of NativeShapeSmd: the fallback of the through-hole mapping.
NativeShapeSmdCircleFallback(shape) ==
    CASE shape \in {PAD_ROUND, PAD_OCTAGON} -> "circle"
      [] shape \in {PAD_SQUARE, PAD_RECT}   -> "rect"
      [] shape = PAD_RRECT                  -> "roundrect"
      [] shape = PAD_OVAL                   -> "oval"
      [] OTHER                              -> "circle"

\* Lines 691-700: the shape of a surface-mount pad when no rounding is asked.
NativeShapeSmd(shape) ==
    CASE shape \in {PAD_ROUND, PAD_OCTAGON} -> "circle"
      [] shape \in {PAD_SQUARE, PAD_RECT}   -> "rect"
      [] shape = PAD_RRECT                  -> "roundrect"
      [] shape = PAD_OVAL                   -> "oval"
      [] OTHER                              -> "rect"

\* Lines 733-742: the shape of a through-hole pad.
NativeShapePth(shape) ==
    CASE shape \in {PAD_ROUND, PAD_OCTAGON} -> "circle"
      [] shape \in {PAD_SQUARE, PAD_RECT}   -> "rect"
      [] shape = PAD_RRECT                  -> "roundrect"
      [] shape = PAD_OVAL                   -> "oval"
      [] OTHER                              -> "circle"

\* Mutant of RoundedShape: the centre exception is applied wherever the pin is.
RoundedShapeCenterAnywhere(pin, o) ==
    IF ~can_round_center(pin, o)
    THEN "rect"
    ELSE IF o.roundedpads = Some("all")
    THEN IF can_round_pads(pin, o) THEN "oval" ELSE "rect"
    ELSE IF o.roundedpads = Some("allbut1")
    THEN IF can_round_pads(pin, o)
         THEN IF pin.Name = "1" THEN "rect" ELSE "oval"
         ELSE "rect"
    ELSE "assert"

\* Mutant of RoundedShape: every designator that starts with 1 is pin 1.
RoundedShapePrefixOne(pin, o) ==
    IF ~can_round_center(pin, o) /\ pin.Coords = <<0, 0>>
    THEN "rect"
    ELSE IF o.roundedpads = Some("all")
    THEN IF can_round_pads(pin, o) THEN "oval" ELSE "rect"
    ELSE IF o.roundedpads = Some("allbut1")
    THEN IF can_round_pads(pin, o)
         THEN IF pin.Name \in {"1", "10"} THEN "rect" ELSE "oval"
         ELSE "rect"
    ELSE "assert"

\* Lines 701-711: the shape of a surface-mount pad when rounding is asked;
\* "assert" stands for the "assert False" of line 711.
RoundedShape(pin, o) ==
    IF ~can_round_center(pin, o) /\ pin.Coords = <<0, 0>>
    THEN "rect"
    ELSE IF o.roundedpads = Some("all")
    THEN IF can_round_pads(pin, o) THEN "oval" ELSE "rect"
    ELSE IF o.roundedpads = Some("allbut1")
    THEN IF can_round_pads(pin, o)
         THEN IF pin.Name = "1" THEN "rect" ELSE "oval"
         ELSE "rect"
    ELSE "assert"

SquareShapes == {PAD_ROUND, PAD_SQUARE, PAD_OCTAGON}

\* Lines 668-670, 673-675, 722-725: sx, sy of a pad before rotation.
PadExtent(pad) ==
    [sx |-> pad.Width,
     sy |-> IF pad.Shape \in SquareShapes THEN pad.Width ELSE pad.Len1 + pad.Len2]

\* One entry of the list kicad_sexp returns.
PadEntry(name, type, shape, at, size, drill, layers) ==
    [name |-> name, type |-> type, shape |-> shape, at |-> at, size |-> size,
     drill |-> drill, layers |-> layers]

Raised == [raised |-> TRUE, sexp |-> <<>>]

Returned(entry) == [raised |-> FALSE, sexp |-> <<entry>>]

\* Lines 663-718: the surface-mount branch.
SmdSexp(pin, o) ==
    IF pin.TopPad = None /\ pin.BottomPad = None
    THEN Raised   \* self.BottomPad.Width: AttributeError
    ELSE LET ref_pad == IF pin.TopPad # None THEN pin.TopPad[1] ELSE pin.BottomPad[1]
             e  == PadExtent(ref_pad)
             turned == pin.Angle \in {90, 270}
             sx == IF turned THEN e.sy ELSE e.sx
             sy == IF turned THEN e.sx ELSE e.sy
             shape == IF o.roundedpads = None
                      THEN NativeShapeSmd(ref_pad.Shape)
                      ELSE RoundedShape(pin, o)
             x == to_mm(pin.Coords[1], pin.Units)
             y == to_mm(pin.Coords[2], pin.Units)
             w == to_mm(sy, pin.Units)
             h == to_mm(sx, pin.Units)
         IN  IF shape = "assert" \/ x = None
             THEN Raised   \* assert False; -None: TypeError
             ELSE Returned(PadEntry(pin.Name, "smd", shape, <<x[1], -y[1]>>,
                                    <<w[1], h[1]>>, None,
                                    <<"F.Cu", "F.Paste", "F.Mask">>))

\* Lines 720-759: the through-hole branch.
PthSexp(pin, o) ==
    IF pin.TopPad = None
    THEN Raised   \* self.TopPad.Width: AttributeError
    ELSE LET top == pin.TopPad[1]
             e  == PadExtent(top)
             turned == pin.Angle \in {90, 270}
             sx == IF turned THEN e.sy ELSE e.sx
             sy == IF turned THEN e.sx ELSE IF e.sy = 0 THEN e.sx ELSE e.sy
             shape == NativeShapePth(top.Shape)
             x == to_mm(pin.Coords[1], pin.Units)
             y == to_mm(pin.Coords[2], pin.Units)
             d == to_mm(pin.DrillDiam, pin.Units)
         IN  IF top.Shape = PAD_NONE /\ pin.BottomPad = None
             THEN Raised   \* self.BottomPad.Shape: AttributeError
             ELSE IF x = None
             THEN Raised   \* -None: TypeError
             ELSE IF top.Shape = PAD_NONE /\ pin.BottomPad[1].Shape = PAD_NONE
             THEN Returned(PadEntry(pin.Name, "np_thru_hole", shape, <<x[1], -y[1]>>,
                                    <<d[1], d[1]>>, d, <<"*.Mask">>))
             ELSE Returned(PadEntry(pin.Name, "thru_hole", shape, <<x[1], -y[1]>>,
                                    <<to_mm(sx, pin.Units)[1], to_mm(sy, pin.Units)[1]>>,
                                    d, <<"*.Cu", "*.Mask">>))

\* Pin.kicad_sexp: the list returned, or the raise.
PinKicadSexp(pin, o) ==
    IF pin.DrillDiam = 0 THEN SmdSexp(pin, o) ELSE PthSexp(pin, o)

(***************************************************************************)
(* The pins and configurations the pad specification starts from.          *)
(***************************************************************************)
PadsOf(shapes) ==
    { [Shape |-> sh, Width |-> 2, Len1 |-> 1, Len2 |-> 3, CornRad |-> 0] : sh \in shapes }

OptPads(shapes) == {None} \cup {Some(p) : p \in PadsOf(shapes)}

ModNames == { <<"A", "B">>, <<"B", "A">> }

\* One pin of any kind.
RichPins ==
    { [ModName |-> mn, Name |-> nm, DrillDiam |-> dd, Coords |-> <<x, y>>, Angle |-> an,
       TopPad |-> tp, InnerPad |-> ip, BottomPad |-> bp, Units |-> <<"NM">>] :
      mn \in ModNames, nm \in {"1", "2"}, dd \in {0, 1},
      x \in 0..MaxCoord, y \in 0..MaxCoord, an \in {0, 90},
      tp \in OptPads(0..MaxShape), ip \in OptPads({PAD_ROUND}),
      bp \in OptPads(0..MaxShape) }

\* Surface-mount pins with a top pad, to be resolved two at a time.
SimplePins ==
    { [ModName |-> mn, Name |-> nm, DrillDiam |-> 0, Coords |-> <<x, 0>>, Angle |-> an,
       TopPad |-> tp, InnerPad |-> None, BottomPad |-> None, Units |-> <<"NM">>] :
      mn \in ModNames, nm \in {"1", "2", "10"}, x \in {0, 1}, an \in {0, 90},
      tp \in {Some(p) : p \in PadsOf({PAD_RECT, PAD_OVAL})} }

PinLists == { <<p>> : p \in RichPins } \cup { <<p, q>> : p, q \in SimplePins }

OptsSet ==
    { [roundedpads |-> rp, rpexceptions |-> rpe, rcexceptions |-> rce] :
      rp \in {None, Some("all"), Some("allbut1")},
      rpe \in {<<>>, << <<"A">> >>}, rce \in {<<>>, << <<"A">> >>} }

InitPin ==
    /\ opts \in OptsSet
    /\ pins \in PinLists
    /\ sexp = <<>>
    /\ Text = <<>>
    /\ File = <<>>
    /\ Lineno = 1
    /\ key = ""
    /\ value = <<>>
    /\ recLine = 0
    /\ pc = "serialize"
    /\ err = NoError
    /\ mod = NoModule
    /\ Modules = <<>>
    /\ dispatched = <<>>
    /\ InitMainIdle
    /\ InitExtIdle

\* PCBmodule.kicad_sexp, lines 420-422: "sexp.extend (i.kicad_sexp ())" for
\* the next pin.
SerializePin ==
    /\ pc = "serialize"
    /\ Len(sexp) < Len(pins)
    /\ LET r == PinKicadSexp(pins[Len(sexp) + 1], opts) IN
        IF r.raised
        THEN Raise([kind |-> "AttributeError", line |-> 0]) /\ sexp' = sexp
        ELSE /\ sexp' = sexp \o r.sexp
             /\ pc' = IF Len(sexp') = Len(pins) THEN "serialized" ELSE "serialize"
             /\ err' = err
    /\ UNCHANGED <<readerVars, mod, Modules, dispatched, mainVars, opts, pins, extVars>>

vars == <<Text, File, Lineno, key, value, recLine, pc, err, mod, Modules, dispatched,
         library, filesRead, opts, pins, sexp, arg, ret, boxes, files>>

NextReader == GetString \/ AtEnd

SpecReader == InitReader /\ [][NextReader]_vars

NextParse ==
    \/ LibraryStart
    \/ LibraryLoop
    \/ HeaderField
    \/ HeaderUnexpected
    \/ HeaderEnd
    \/ BodyField
    \/ BodyText
    \/ BodyGraphic
    \/ BodyUnexpected
    \/ BodyEnd

SpecParse == InitParse /\ [][NextParse]_vars

NextLib == NextParse \/ MainMerge \/ MainOpen \/ MainStripLmn

SpecLib == InitLib /\ [][NextLib]_vars

NextPin == SerializePin

SpecPin == InitPin /\ [][NextPin]_vars

(***************************************************************************)
(* Bounding boxes and the courtyard.  A bounding box is in millimetres,    *)
(* kept as integers that count half nanometres (2 000 000 to the           *)
(* millimetre), so that half a pad width is exact: a length n in the       *)
(* units u of a graphic is to_mm(2 * n, u) half nanometres.                *)
(***************************************************************************)
IsPolyline(g) == "Points" \in DOMAIN g

Min(S) == CHOOSE x \in S : \A y \in S : x <= y

Max(S) == CHOOSE x \in S : \A y \in S : x >= y

\* Polyline.bounding_box: (left, right, top, bottom), each to_mm's result.
PolylineBoundingBox(pl) ==
    LET xs == { pl.Points[i][1] : i \in 1..Len(pl.Points) }
        ys == { pl.Points[i][2] : i \in 1..Len(pl.Points) }
    IN  [raised |-> "",
         box |-> << to_mm(2 * Min(xs), pl.Units), to_mm(2 * Max(xs), pl.Units),
                    to_mm(2 * Max(ys), pl.Units), to_mm(2 * Min(ys), pl.Units) >>]

\* Pin.bounding_box; with no top and no bottom pad line 774 raises.
PinBoundingBox(pin) ==
    IF pin.TopPad = None /\ pin.BottomPad = None
    THEN [raised |-> "AttributeError", box |-> <<>>]
    ELSE LET pad == IF pin.TopPad # None THEN pin.TopPad[1] ELSE pin.BottomPad[1]
             sx0 == pad.Width
             sy0 == IF pad.Len1 + pad.Len2 = 0 THEN sx0 ELSE pad.Len1 + pad.Len2
             rot == pin.Angle = 90 \/ pin.Angle = 270
             sx1 == IF rot THEN sy0 ELSE sx0
             sy1 == IF rot THEN sx0 ELSE sy0
             sx  == IF pin.DrillDiam = 0 THEN sy1 ELSE sx1
             sy  == IF pin.DrillDiam = 0 THEN sx1 ELSE sy1
         IN  [raised |-> "",
              box |-> << to_mm(2 * pin.Coords[1] - sx, pin.Units),
                         to_mm(2 * pin.Coords[1] + sx, pin.Units),
                         to_mm(2 * pin.Coords[2] + sy, pin.Units),
                         to_mm(2 * pin.Coords[2] - sy, pin.Units) >>]

GraphicBoundingBox(g) ==
    IF IsPolyline(g) THEN PolylineBoundingBox(g) ELSE PinBoundingBox(g)

\* PCBmodule.bounding_box, lines 441-446, from the sub-boxes: the first
\* failing sub-box raises; min () of no box at all raises ValueError.
BoxOfBoxes(sub) ==
    IF \E i \in 1..Len(sub) : sub[i].raised # ""
    THEN [raised |-> sub[Min({ i \in 1..Len(sub) : sub[i].raised # "" })].raised,
          box |-> <<>>]
    ELSE IF Len(sub) = 0 THEN [raised |-> "ValueError", box |-> <<>>]
    ELSE IF \E i \in 1..Len(sub) : \E k \in 1..4 : sub[i].box[k] = None
    THEN [raised |-> "", box |-> <<None, None, None, None>>]
    ELSE [raised |-> "",
          box |-> << Some(Min({ sub[i].box[1][1] : i \in 1..Len(sub) })),
                     Some(Max({ sub[i].box[2][1] : i \in 1..Len(sub) })),
                     Some(Max({ sub[i].box[3][1] : i \in 1..Len(sub) })),
                     Some(Min({ sub[i].box[4][1] : i \in 1..Len(sub) })) >>]

\* PCBmodule.bounding_box
ModuleBoundingBox(m) ==
    BoxOfBoxes([i \in 1..Len(m.Graphics) |-> GraphicBoundingBox(m.Graphics[i])])

\* The polyline add_courtyard builds from the corners it computed.
CourtyardPolyline(pts) ==
    [Points |-> pts, Style |-> <<0, 0, 0, 0>>, Linewidth |-> "0.05", Closed |-> FALSE,
     Layer |-> "F.CrtYd", Units |-> <<"MM">>]

\* Mutant of CourtyardCorners: the spacing is added to the bottom as well.
CourtyardCornersBottomUp(left, right, top, bottom, spacing) ==
    << <<left - spacing, top + spacing>>, <<right + spacing, top + spacing>>,
       <<right + spacing, bottom + spacing>>, <<left - spacing, bottom + spacing>>,
       <<left - spacing, top + spacing>> >>

\* add_courtyard, lines 452-458: the sides moved out by the spacing, and the
\* five points.
CourtyardCorners(left, right, top, bottom, spacing) ==
    << <<left - spacing, top + spacing>>, <<right + spacing, top + spacing>>,
       <<right + spacing, bottom - spacing>>, <<left - spacing, bottom - spacing>>,
       <<left - spacing, top + spacing>> >>

\* add_courtyard once bounding_box () has returned bb; "left -= spacing" on
\* a None raises TypeError.
AddCourtyardFrom(m, bb, spacing) ==
    IF bb.raised # "" THEN [raised |-> bb.raised, mod |-> m]
    ELSE IF bb.box[1] = None THEN [raised |-> "TypeError", mod |-> m]
    ELSE [raised |-> "",
          mod |-> [m EXCEPT !.Graphics = Append(@, CourtyardPolyline(
                      CourtyardCorners(bb.box[1][1], bb.box[2][1], bb.box[3][1],
                                       bb.box[4][1], spacing)))]]

\* PCBmodule.add_courtyard
add_courtyard(m, spacing) == AddCourtyardFrom(m, ModuleBoundingBox(m), spacing)

MaxGraphics == 2        \* graphic elements of a footprint given a courtyard
\* 0.5 mm, in half nanometres.
HalfMillimetre == to_mm(1, <<"MM">>)[1]

CourtUnits == { <<"NM">>, <<"MM">>, <<"XX">> }

CourtSpacings == { 0, HalfMillimetre }

CourtPins(u) ==
    { [ModName |-> <<"A">>, Name |-> "1", DrillDiam |-> dd, Coords |-> xy, Angle |-> an,
       TopPad |-> tp, InnerPad |-> None, BottomPad |-> bp, Units |-> u] :
      dd \in {0, 1}, xy \in { <<0, 0>>, <<1, -1>> }, an \in {0, 90},
      tp \in {None,
              Some([Shape |-> PAD_RECT, Width |-> 2, Len1 |-> 1, Len2 |-> 1, CornRad |-> 0]),
              Some([Shape |-> PAD_RECT, Width |-> 4, Len1 |-> 0, Len2 |-> 0, CornRad |-> 0])},
      bp \in {None,
              Some([Shape |-> PAD_RECT, Width |-> 6, Len1 |-> 1, Len2 |-> 0, CornRad |-> 0])} }

CourtPolylines(u) ==
    { [NewPolyline EXCEPT !.Units = u, !.Linewidth = 1, !.Points = pts,
                          !.Style = [i \in 1..(Len(pts) - 1) |-> 0]] :
      pts \in { << <<0, 0>> >>, << <<0, 0>>, <<2, 1>> >>, << <<-1, 1>>, <<1, -1>> >> } }

CourtModules ==
    UNION { { [NewModule(1) EXCEPT !.Name = <<"A">>, !.Units = u, !.Graphics = gs] :
              gs \in SeqUpTo(CourtPins(u) \cup CourtPolylines(u), MaxGraphics) } :
            u \in CourtUnits }

InitCourt ==
    /\ mod \in CourtModules
    /\ arg \in CourtSpacings
    /\ pc = "courtyard"
    /\ err = NoError
    /\ Text = <<>>
    /\ File = <<>>
    /\ Lineno = 1
    /\ key = ""
    /\ value = <<>>
    /\ recLine = 0
    /\ Modules = <<>>
    /\ dispatched = <<>>
    /\ ret = <<>>
    /\ boxes = <<>>
    /\ files = <<>>
    /\ InitMainIdle
    /\ InitPinIdle

\* main, lines 1029-1031: "i.add_courtyard (args.courtyard)".
AddCourtyard ==
    /\ pc = "courtyard"
    /\ LET r == add_courtyard(mod, arg) IN
        IF r.raised # ""
        THEN Raise([kind |-> r.raised, line |-> 0]) /\ mod' = mod
        ELSE mod' = r.mod /\ pc' = "courtyarded" /\ err' = err
    /\ UNCHANGED <<readerVars, Modules, dispatched, mainVars, pinVars, extVars>>

NextCourt == AddCourtyard

SpecCourt == InitCourt /\ [][NextCourt]_vars

(***************************************************************************)
(* SexpDump.  A tree is a list, [list |-> <<children>>], or an atom,       *)
(* [atom |-> text, quoted |-> b]: quoted for a Python string, bare for a   *)
(* symbol or a number.  The text written is the sequence of the strings    *)
(* handed to f.write, the escaped body of a string being one of them.      *)
(***************************************************************************)
IsList(t) == "list" \in DOMAIN t

RECURSIVE SexpDump(_, _)
SexpDump(t, indentlevel) ==
    IF IsList(t)
    THEN LET RECURSIVE Elems(_)
             Elems(i) ==
                 IF i > Len(t.list) THEN <<>>
                 ELSE (IF i = 1 THEN <<>> ELSE <<" ">>)
                      \o SexpDump(t.list[i], indentlevel + 1) \o Elems(i + 1)
         IN  <<"(">> \o Elems(1) \o <<")">>
             \o (IF indentlevel = 1 THEN <<"\n">> ELSE <<>>)
    ELSE IF t.quoted THEN <<"\"", t.atom, "\"">>
    ELSE <<t.atom>>

MaxDepth == 3   \* nesting depth of the trees given to SexpDump
MaxWidth == 2   \* elements of one list of such a tree

DumpAtoms == { [atom |-> "pad", quoted |-> FALSE], [atom |-> "A b", quoted |-> TRUE] }

RECURSIVE DumpTrees(_)
DumpTrees(d) ==
    IF d = 0 THEN DumpAtoms
    ELSE DumpAtoms \cup { [list |-> l] : l \in SeqUpTo(DumpTrees(d - 1), MaxWidth) }

InitDump ==
    /\ arg \in { t \in DumpTrees(MaxDepth) : IsList(t) }
    /\ ret = <<>>
    /\ pc = "dump"
    /\ boxes = <<>>
    /\ files = <<>>
    /\ err = NoError
    /\ mod = NoModule
    /\ Modules = <<>>
    /\ dispatched = <<>>
    /\ Text = <<>>
    /\ File = <<>>
    /\ Lineno = 1
    /\ key = ""
    /\ value = <<>>
    /\ recLine = 0
    /\ InitMainIdle
    /\ InitPinIdle

\* main, line 1052: "SexpDump (sexp, f)".
Dump ==
    /\ pc = "dump"
    /\ ret' = SexpDump(arg, 0)
    /\ pc' = "dumped"
    /\ UNCHANGED <<readerVars, err, mod, Modules, dispatched, mainVars, pinVars,
                   arg, boxes, files>>

NextDump == Dump

SpecDump == InitDump /\ [][NextDump]_vars

(***************************************************************************)
(* Serialisation of a footprint: TextProperties.kicad_sexp,                *)
(* Polyline.kicad_sexp with kicad_arc_center, PCBmodule.kicad_sexp.        *)
(* Entries are records; their lengths are to_mm's results (nanometres),    *)
(* except the fields whose name ends in 2, which count half nanometres.    *)
(***************************************************************************)
\* The cotangent of angle/2 for the two angles Polyline.kicad_sexp passes:
\* 1 / tan(45 degrees) and 1 / tan(-45 degrees), in exact arithmetic.
CotHalf(angle) == IF angle = 90 THEN 1 ELSE -1

\* Mutant of kicad_arc_center: the centre is put on the other side of the
\* chord for angle -90 only when the chord is horizontal.
kicad_arc_center_one_side(start, end, angle) ==
    LET dx == end[1] - start[1]
        dy == end[2] - start[2]
        c  == IF dy = 0 THEN CotHalf(angle) ELSE 1
    IN  IF dx = 0 /\ dy = 0
        THEN [raised |-> "ZeroDivisionError", center2 |-> <<>>]
        ELSE [raised |-> "",
              center2 |-> << 2 * start[1] + dx + c * dy, 2 * start[2] + dy - c * dx >>]

\* kicad_arc_center, twice the centre: mid + dist * (dy, -dx) / dlen with
\* dist = dlen / (2 tan(angle/2)); dlen = 0 divides by zero.
kicad_arc_center(start, end, angle) ==
    LET dx == end[1] - start[1]
        dy == end[2] - start[2]
    IN  IF dx = 0 /\ dy = 0
        THEN [raised |-> "ZeroDivisionError", center2 |-> <<>>]
        ELSE [raised |-> "",
              center2 |-> << 2 * start[1] + dx + CotHalf(angle) * dy,
                             2 * start[2] + dy - CotHalf(angle) * dx >>]

\* Polyline.kicad_sexp: segment k runs from point k to point k + 1 and reads
\* Style[j], j stopping at the last style; an empty Style raises IndexError.
PolylineSegment(pl, k) ==
    LET a == pl.Points[k]
        b == pl.Points[k + 1]
        u == pl.Units
    IN  IF pl.Style = <<>> THEN [raised |-> "IndexError", sexp |-> <<>>]
        ELSE LET style == pl.Style[IF k < Len(pl.Style) THEN k ELSE Len(pl.Style)]
                 angle == IF style = 1 THEN -90 ELSE 90
                 p1 == <<a[1], -a[2]>>
                 p2 == <<b[1], -b[2]>>
                 c == kicad_arc_center(p1, p2, angle)
             IN  IF style = 0
                 THEN [raised |-> "",
                       sexp |-> << [kind |-> "fp_line",
                                    start |-> <<to_mm(a[1], u), to_mm(-a[2], u)>>,
                                    end |-> <<to_mm(b[1], u), to_mm(-b[2], u)>>,
                                    layer |-> pl.Layer,
                                    width |-> to_mm(pl.Linewidth, u)] >>]
                 ELSE IF c.raised # "" THEN [raised |-> c.raised, sexp |-> <<>>]
                 ELSE [raised |-> "",
                       sexp |-> << [kind |-> "fp_arc",
                                    start2 |-> <<to_mm(c.center2[1], u), to_mm(c.center2[2], u)>>,
                                    end |-> <<to_mm(p1[1], u), to_mm(p1[2], u)>>,
                                    angle |-> -angle,
                                    layer |-> pl.Layer,
                                    width |-> to_mm(pl.Linewidth, u)] >>]

\* A run of kicad_sexp calls: the entries in order, or the first raise.
RECURSIVE SexpExtend(_, _, _)
SexpExtend(F(_), n, k) ==
    IF k > n THEN [raised |-> "", sexp |-> <<>>]
    ELSE LET r == F(k) IN
         IF r.raised # "" THEN [raised |-> r.raised, sexp |-> <<>>]
         ELSE LET rest == SexpExtend(F, n, k + 1) IN
              IF rest.raised # "" THEN rest
              ELSE [raised |-> "", sexp |-> r.sexp \o rest.sexp]

PolylineKicadSexp(pl) ==
    LET Seg(k) == PolylineSegment(pl, k) IN SexpExtend(Seg, Len(pl.Points) - 1, 1)

\* len (self.Str)
StrLen(str) == IF str = <<"REF**">> THEN 5 ELSE Len(str)

\* TextProperties.kicad_sexp: to_mm returns None for an unknown unit without
\* converting (None * len raises TypeError), and float () of a field that is
\* no number raises ValueError.
TextKicadSexp(t) ==
    IF to_mm(0, t.Units) = None THEN [raised |-> "TypeError", sexp |-> <<>>]
    ELSE IF ~AllFloat(<<t.Height, t.x, t.y, t.LineWidth>>)
    THEN [raised |-> "ValueError", sexp |-> <<>>]
    ELSE LET h == to_mm(NumeralValue[t.Height], t.Units)[1]
             x == to_mm(NumeralValue[t.x], t.Units)[1]
             y == to_mm(NumeralValue[t.y], t.Units)[1]
             w == to_mm(NumeralValue[t.LineWidth], t.Units)[1]
         IN  [raised |-> "",
              sexp |-> << [kind |-> "fp_text", type |-> t.TextType, str |-> t.Str,
                           at2 |-> <<2 * x + h * StrLen(t.Str), -2 * y - h>>,
                           layer |-> t.Layer, size |-> <<h, h>>, thickness |-> w] >>]

\* The exception Pin.kicad_sexp ends with when it raises: AttributeError for
\* a pad it reads that is None, TypeError for "-None" of an unknown unit.
PinRaiseKind(pin) ==
    IF \/ pin.DrillDiam = 0 /\ pin.TopPad = None /\ pin.BottomPad = None
       \/ pin.DrillDiam # 0 /\ pin.TopPad = None
       \/ pin.DrillDiam # 0 /\ pin.TopPad # None /\ pin.TopPad[1].Shape = PAD_NONE
                             /\ pin.BottomPad = None
    THEN "AttributeError"
    ELSE "TypeError"

\* PCBmodule.kicad_sexp: header, texts, polylines, pads (no 3D model).
ModuleKicadSexp(m, o) ==
    LET texts == m.RefText \o m.ValText \o m.UserText
        polys == SelectSeq(m.Graphics, IsPolyline)
        NotPolyline(g) == ~IsPolyline(g)
        pads == SelectSeq(m.Graphics, NotPolyline)
        T(k) == TextKicadSexp(texts[k])
        P(k) == PolylineKicadSexp(polys[k])
        Q(k) == LET r == PinKicadSexp(pads[k], o) IN
                [raised |-> IF r.raised THEN PinRaiseKind(pads[k]) ELSE "", sexp |-> r.sexp]
        ts == SexpExtend(T, Len(texts), 1)
        ps == SexpExtend(P, Len(polys), 1)
        qs == SexpExtend(Q, Len(pads), 1)
    IN  IF ts.raised # "" THEN ts
        ELSE IF ps.raised # "" THEN ps
        ELSE IF qs.raised # "" THEN qs
        ELSE [raised |-> "",
              sexp |-> << [kind |-> "module", name |-> m.Name, layer |-> "F.Cu",
                           descr |-> m.Description] >>
                       \o ts.sexp \o ps.sexp \o qs.sexp]

(***************************************************************************)
(* The output loop of main.                                                *)
(***************************************************************************)
OutNames == { <<"A">>, <<"B">> }

OutRefTexts ==
    { <<"1", "0", "0", "0", "1">>,    \* well formed
      <<"x", "0", "0", "0", "1">>,    \* a height that is no number
      <<"1", "0">> }                  \* fields missing

OutGraphics ==
    { <<>>,
      << Rec("pin", <<"1", "0", "0", "0", "0">>), Rec("top_pad", <<"1", "1", "1", "1">>) >>,
      << Rec("pin", <<"1", "0", "0", "0", "0">>) >> }

OutBlock(n, rt, g) ==
    << Rec("name", n),
       Rec("units", <<"NM">>),
       Rec("sel_rect", <<"0", "0", "1", "1">>),
       Rec("ref_text", rt) >> \o g

OutBlockSet == { OutBlock(n, rt, g) : n \in OutNames, rt \in OutRefTexts, g \in OutGraphics }

RECURSIVE Concat(_)
Concat(ss) == IF ss = <<>> THEN <<>> ELSE Head(ss) \o Concat(Tail(ss))

OutFiles == { Concat(bs) \o t : bs \in SeqUpTo(OutBlockSet, MaxModules), t \in Trailers }

\* main as InitLib has it, the first input file being one of OutFiles.
InitOut ==
    /\ Text \in OutFiles
    /\ File = Text
    /\ Lineno = 1
    /\ key = ""
    /\ value = <<>>
    /\ recLine = 0
    /\ pc = "start"
    /\ err = NoError
    /\ mod = NoModule
    /\ Modules = <<>>
    /\ dispatched = <<>>
    /\ library = NewLibrary
    /\ filesRead = 1
    /\ InitPinIdle
    /\ InitExtIdle

\* main, lines 1045-1052, one turn of the loop: the file of the next module
\* is opened for writing (it exists, empty, from then on), the module is
\* serialised and dumped into it.  A raise of kicad_sexp leaves the run with
\* the file opened and nothing written.
MainOutput ==
    /\ pc \in {"merged", "stripped", "output"}
    /\ Len(files) < Len(library.Modules)
    /\ LET m == library.Modules[Len(files) + 1]
           r == ModuleKicadSexp(m, opts)
       IN  IF r.raised # ""
           THEN /\ files' = Append(files, [path |-> m.Name, written |-> None])
                /\ Raise([kind |-> r.raised, line |-> 0])
           ELSE /\ files' = Append(files, [path |-> m.Name, written |-> Some(r.sexp)])
                /\ pc' = "output"
                /\ err' = err
    /\ UNCHANGED <<readerVars, mod, Modules, dispatched, mainVars, pinVars,
                   arg, ret, boxes>>

NextOut == NextLib \/ MainOutput

SpecOut == InitOut /\ [][NextOut]_vars

(***************************************************************************)
(* kicad_arc_center on its own: both angles for one chord.                 *)
(***************************************************************************)
MaxArc == 2   \* chord endpoints range over -MaxArc..MaxArc on both axes

ArcPoints == { <<x, y>> : x, y \in -MaxArc..MaxArc } \cup { <<10, 0>> }

ArcAngles == {90, -90}

InitArc ==
    /\ arg \in { [start |-> p, end |-> q] : p, q \in ArcPoints }
    /\ ret = <<>>
    /\ pc = "arc"
    /\ boxes = <<>>
    /\ files = <<>>
    /\ err = NoError
    /\ mod = NoModule
    /\ Modules = <<>>
    /\ dispatched = <<>>
    /\ Text = <<>>
    /\ File = <<>>
    /\ Lineno = 1
    /\ key = ""
    /\ value = <<>>
    /\ recLine = 0
    /\ InitMainIdle
    /\ InitPinIdle

\* Polyline.kicad_sexp, line 554: "center = kicad_arc_center (p1, p2, angle)"
\* for an angle not asked for yet.
ArcCenter ==
    /\ pc = "arc"
    /\ \E angle \in ArcAngles \ { ret[i].angle : i \in 1..Len(ret) } :
         LET c == kicad_arc_center(arg.start, arg.end, angle) IN
         IF c.raised # ""
         THEN Raise([kind |-> c.raised, line |-> 0]) /\ ret' = ret
         ELSE /\ ret' = Append(ret, [angle |-> angle, center2 |-> c.center2])
              /\ pc' = IF Len(ret') = Cardinality(ArcAngles) THEN "arcs" ELSE "arc"
              /\ err' = err
    /\ UNCHANGED <<readerVars, mod, Modules, dispatched, mainVars, pinVars,
                   arg, boxes, files>>

NextArc == ArcCenter

SpecArc == InitArc /\ [][NextArc]_vars

(***************************************************************************)
(* Polylines from input to courtyard: files with an outline, and the       *)
(* courtyard loop of main.                                                 *)
(***************************************************************************)
MaxCorners == 2   \* next_corner records of one outline

PolyCornerRecs ==
    { Rec("next_corner", <<"2", "0", "0">>),     \* a straight side
      Rec("next_corner", <<"2", "2", "1">>) }    \* an arc

PolyClosings ==
    { <<>>, << Rec("close_polyline", <<"0">>) >>, << Rec("close_polyline", <<>>) >> }

PolyRecords ==
    { << Rec("outline_polyline", <<"1", "0", "0">>) >> \o cs \o cl :
      cs \in SeqUpTo(PolyCornerRecs, MaxCorners), cl \in PolyClosings }

PolyFiles ==
    { GoodBlock(<<"A">>) \o pl \o t : pl \in PolyRecords, t \in Trailers \cup {<<>>} }
    \cup Trailers

InitPoly ==
    /\ Text \in PolyFiles
    /\ File = Text
    /\ Lineno = 1
    /\ key = ""
    /\ value = <<>>
    /\ recLine = 0
    /\ pc = "start"
    /\ err = NoError
    /\ mod = NoModule
    /\ Modules = <<>>
    /\ dispatched = <<>>
    /\ library = NewLibrary
    /\ filesRead = 1
    /\ InitPinIdle
    /\ InitExtIdle

\* The loop of main, lines 1030-1031, from module k on: the modules with
\* their courtyards, up to the first add_courtyard that raises.
RECURSIVE CourtyardAll(_, _, _)
CourtyardRest(ms, spacing, k, r) ==
    IF r.raised # "" THEN [raised |-> r.raised, Modules |-> ms]
    ELSE CourtyardAll([ms EXCEPT ![k] = r.mod], spacing, k + 1)

CourtyardAll(ms, spacing, k) ==
    IF k > Len(ms) THEN [raised |-> "", Modules |-> ms]
    ELSE CourtyardRest(ms, spacing, k, add_courtyard(ms[k], spacing))

\* main, lines 1029-1031: "--add-courtyard" was given.
MainCourtyard ==
    /\ pc \in {"merged", "stripped"}
    /\ \E spacing \in CourtSpacings :
         LET r == CourtyardAll(library.Modules, spacing, 1) IN
         /\ arg' = spacing
         /\ library' = [library EXCEPT !.Modules = r.Modules]
         /\ IF r.raised # ""
            THEN Raise([kind |-> r.raised, line |-> 0])
            ELSE pc' = "courtyarded" /\ err' = err
    /\ UNCHANGED <<readerVars, mod, Modules, dispatched, filesRead, pinVars,
                   ret, boxes, files>>

NextPoly == NextLib \/ MainCourtyard

SpecPoly == InitPoly /\ [][NextPoly]_vars

(***************************************************************************)
(* One pin at its four rotations: serialised by kicad_sexp and measured by *)
(* bounding_box.                                                           *)
(***************************************************************************)
Rotations == <<0, 90, 180, 270>>

RotPads ==
    { [Shape |-> sh, Width |-> w, Len1 |-> l1, Len2 |-> l2, CornRad |-> 0] :
      sh \in 0..MaxShape, w \in {0, 2}, l1 \in {0, 1}, l2 \in {0, 3} }

RotPins ==
    { [ModName |-> <<"A">>, Name |-> "1", DrillDiam |-> dd, Coords |-> xy, Angle |-> 0,
       TopPad |-> tp, InnerPad |-> None, BottomPad |-> bp, Units |-> u] :
      dd \in {0, 1}, xy \in { <<0, 0>>, <<1, 2>> },
      tp \in {None} \cup { Some(p) : p \in RotPads },
      bp \in {None,
              Some([Shape |-> PAD_NONE, Width |-> 4, Len1 |-> 1, Len2 |-> 1, CornRad |-> 0])},
      u \in { <<"NM">>, <<"MM">> } }

InitRot ==
    /\ \E p \in RotPins : pins = [k \in 1..Len(Rotations) |-> [p EXCEPT !.Angle = Rotations[k]]]
    /\ opts \in { o \in OptsSet : o.rpexceptions = <<>> /\ o.rcexceptions = <<>> }
    /\ sexp = <<>>
    /\ boxes = <<>>
    /\ arg = <<>>
    /\ ret = <<>>
    /\ files = <<>>
    /\ Text = <<>>
    /\ File = <<>>
    /\ Lineno = 1
    /\ key = ""
    /\ value = <<>>
    /\ recLine = 0
    /\ pc = "serialize"
    /\ err = NoError
    /\ mod = NoModule
    /\ Modules = <<>>
    /\ dispatched = <<>>
    /\ InitMainIdle

\* PCBmodule.bounding_box, line 440: "i.bounding_box()" for the next pin.
BoundPin ==
    /\ pc \in {"serialize", "serialized"}
    /\ Len(boxes) < Len(pins)
    /\ LET b == PinBoundingBox(pins[Len(boxes) + 1]) IN
        IF b.raised # ""
        THEN Raise([kind |-> b.raised, line |-> 0]) /\ boxes' = boxes
        ELSE boxes' = Append(boxes, b.box) /\ pc' = pc /\ err' = err
    /\ UNCHANGED <<readerVars, mod, Modules, dispatched, mainVars, pinVars, arg, ret, files>>

NextRot == SerializePin \/ BoundPin

SpecRot == InitRot /\ [][NextRot]_vars

(***************************************************************************)
(* From input to output with rounding exceptions and the strip pass.       *)
(***************************************************************************)
StripNames == { <<"A", "L">>, <<"L", "A", "M">> }

StripPatterns == { <<>>, << <<"A", "L">> >>, << <<"A">> >> }

StripOpts ==
    { [roundedpads |-> rp, rpexceptions |-> rpe, rcexceptions |-> rce] :
      rp \in {None, Some("all"), Some("allbut1")},
      rpe \in StripPatterns, rce \in StripPatterns }

StripBlock(n) ==
    GoodBlock(n)
    \o << Rec("pin", <<"1", "0", "0", "0", "0">>), Rec("top_pad", <<"3", "2", "1", "1">>),
          Rec("pin", <<"2", "0", "1", "0", "0">>), Rec("top_pad", <<"3", "2", "1", "1">>) >>

StripFiles ==
    { Concat([i \in 1..Len(ns) |-> StripBlock(ns[i])]) \o t :
      ns \in SeqUpTo(StripNames, MaxModules), t \in Trailers }

\* main as InitLib has it, with the rounding options of the command line.
InitStrip ==
    /\ Text \in StripFiles
    /\ File = Text
    /\ Lineno = 1
    /\ key = ""
    /\ value = <<>>
    /\ recLine = 0
    /\ pc = "start"
    /\ err = NoError
    /\ mod = NoModule
    /\ Modules = <<>>
    /\ dispatched = <<>>
    /\ library = NewLibrary
    /\ filesRead = 1
    /\ opts \in StripOpts
    /\ pins = <<>>
    /\ sexp = <<>>
    /\ InitExtIdle

NextStrip == NextLib \/ MainOutput

SpecStrip == InitStrip /\ [][NextStrip]_vars

(***************************************************************************)
(* parse_string, character by character.  A string is the sequence of its  *)
(* characters.                                                             *)
(***************************************************************************)
Whitespace == {" ", "\t"}

\* s[n:]
Drop(s, n) == SubSeq(s, n + 1, Len(s))

\* The 1-based position of the first character of s in C, Len(s)+1 if none.
FirstIn(s, C) ==
    IF \E i \in 1..Len(s) : s[i] \in C
    THEN CHOOSE i \in 1..Len(s) : s[i] \in C /\ \A j \in 1..(i - 1) : s[j] \notin C
    ELSE Len(s) + 1

\* str.lstrip ()
LStrip(s) == Drop(s, FirstIn(s, {s[i] : i \in 1..Len(s)} \ Whitespace) - 1)

\* str.strip ()
Strip(s) ==
    LET l == LStrip(s)
        last == IF \E i \in 1..Len(l) : l[i] \notin Whitespace
                THEN CHOOSE i \in 1..Len(l) :
                        l[i] \notin Whitespace /\ \A j \in (i + 1)..Len(l) : l[j] \in Whitespace
                ELSE 0
    IN  SubSeq(l, 1, last)

\* Lines 139-144: the quote found at 0-based index second_quote.
ParseQuoted(s, second_quote) ==
    LET beyond == Drop(s, second_quote + 1)
        beyond_stripped == LStrip(beyond)
        extra_garbage == Len(beyond) - Len(beyond_stripped)
    IN  [token |-> SubSeq(s, 2, second_quote), consumed |-> second_quote + 1 + extra_garbage]

\* Lines 132-133: string is what s.partition (" ") puts before the space.
ParseBare(string) == [token |-> Strip(string), consumed |-> Len(string) + 1]

parse_string(s) ==
    IF s[1] # "\""
    THEN ParseBare(SubSeq(s, 1, FirstIn(s, {" "}) - 1))
    ELSE IF \A i \in 2..Len(s) : s[i] # "\""
         THEN [token |-> Tail(s), consumed |-> Len(s)]
         ELSE ParseQuoted(s, FirstIn(Tail(s), {"\""}))

MaxStr == 5   \* characters of a pin record's value

Chars == {"a", " ", "\"", "\\"}

\* FreePCBfile.get_string, line 870: a value is stripped and never empty.
StrValues == { s \in SeqUpTo(Chars, MaxStr) \ {<<>>} : Strip(s) = s }

InitStr ==
    /\ arg \in StrValues
    /\ ret = <<>>
    /\ pc = "pin"
    /\ boxes = <<>>
    /\ files = <<>>
    /\ err = NoError
    /\ mod = NoModule
    /\ Modules = <<>>
    /\ dispatched = <<>>
    /\ Text = <<>>
    /\ File = <<>>
    /\ Lineno = 1
    /\ key = "pin"
    /\ value = arg
    /\ recLine = 0
    /\ InitMainIdle
    /\ InitPinIdle

\* Pin.create_from_freepcb, line 609: "self.Name, length = parse_string
\* (file_in.value)".
PinName ==
    /\ pc = "pin"
    /\ ret' = parse_string(value)
    /\ pc' = "named"
    /\ UNCHANGED <<readerVars, err, mod, Modules, dispatched, mainVars, pinVars,
                   arg, boxes, files>>

\* Line 610: "value = file_in.value[length:]".
PinRest ==
    /\ pc = "named"
    /\ value' = Drop(value, ret.consumed)
    /\ pc' = "sliced"
    /\ UNCHANGED <<Text, File, Lineno, key, recLine, err, mod, Modules, dispatched,
                   mainVars, pinVars, arg, ret, boxes, files>>

NextStr == PinName \/ PinRest

SpecStr == InitStr /\ [][NextStr]_vars

(***************************************************************************)
(* What the input text says, read independently of the parser: used to     *)
(* state the claims about record dispatch.                                 *)
(***************************************************************************)
\* The physical lines of Text that hold a record, in file order.
RecordLines == SelectSeq([i \in 1..Len(Text) |-> i], LAMBDA i : ~Text[i].blank)

\* The physical lines of the records of the i-th footprint of Modules: from the
\* record its constructor was entered with up to the record before the next
\* footprint's, or the end of the file.
SpanOf(i) ==
    LET first == Modules[i].start
        last  == IF i < Len(Modules) THEN Modules[i + 1].start - 1 ELSE Len(Text)
    IN  SelectSeq(RecordLines, LAMBDA l : first <= l /\ l <= last)

\* The two-state machine of the footprint constructor run over the records
\* ls of one footprint: st is Header or Body, hdr the header fields so far.
\* ok is FALSE when a record is fatal in the state it arrives in.
RECURSIVE HeaderBodyScan(_, _, _)
HeaderBodyScan(ls, st, hdr) ==
    IF ls = <<>> THEN [ok |-> TRUE, hdr |-> hdr]
    ELSE LET k == Text[Head(ls)].key
             v == Text[Head(ls)].value
         IN  IF st = "Header"
             THEN IF k = "units" THEN HeaderBodyScan(Tail(ls), "Body", hdr)
                  ELSE IF k \in HeaderKeys
                       THEN HeaderBodyScan(Tail(ls), "Header", [hdr EXCEPT ![k] = v])
                       ELSE [ok |-> FALSE, hdr |-> hdr]
             ELSE IF k = "name" THEN [ok |-> TRUE, hdr |-> hdr]
                  ELSE IF k \in {"author", "source", "description"}
                       THEN [ok |-> FALSE, hdr |-> hdr]
                       ELSE HeaderBodyScan(Tail(ls), "Body", hdr)

NoHeader == [name |-> <<>>, author |-> <<>>, source |-> <<>>, description |-> <<>>]

\* The number of name records that start a footprint: a name record met
\* before any footprint or while the previous footprint is in its Body.
RECURSIVE NameStarts(_, _)
NameStarts(ls, st) ==
    IF ls = <<>> THEN 0
    ELSE LET k == Text[Head(ls)].key IN
         IF k = "name" /\ st # "Header" THEN 1 + NameStarts(Tail(ls), "Header")
         ELSE IF k = "units" /\ st = "Header" THEN NameStarts(Tail(ls), "Body")
         ELSE NameStarts(Tail(ls), st)

\* A record of key k was handled by the Body loop of the i-th footprint.
SeenInBody(i, k) ==
    \E j \in 1..Len(dispatched) :
        /\ dispatched[j].by = "Body"
        /\ Text[dispatched[j].line].key = k
        /\ \E n \in 1..Len(SpanOf(i)) : SpanOf(i)[n] = dispatched[j].line

(***************************************************************************)
(* C1.  While one footprint is constructed the parser is first in Header,  *)
(* where only name, author, source and description are accepted, each      *)
(* overwriting its field, and any other key is fatal; Header ends at the   *)
(* first units record and is never returned to: in Body the keys author,   *)
(* source and description are fatal and name ends the footprint.  Stated   *)
(* on the footprints of a library that was built: the records of each      *)
(* footprint pass the Header-then-Body machine with no fatal record, and   *)
(* the footprint's header fields are the last values its Header saw.       *)
(***************************************************************************)
C1_HeaderThenBody ==
    pc = "done" =>
        \A i \in 1..Len(Modules) :
            LET sc == HeaderBodyScan(SpanOf(i), "Header", NoHeader) IN
            /\ sc.ok
            /\ Modules[i].Name = sc.hdr.name
            /\ Modules[i].Author = sc.hdr.author
            /\ Modules[i].Source = sc.hdr.source
            /\ Modules[i].Description = sc.hdr.description

(***************************************************************************)
(* C2.  Every non-blank record is dispatched exactly once, in file order,  *)
(* the final record of the file included, and the library holds as many    *)
(* footprints as the file has name records that start a footprint.         *)
(***************************************************************************)
C2_EveryRecordDispatched ==
    pc = "done" =>
        /\ [j \in 1..Len(dispatched) |-> dispatched[j].line] = RecordLines
        /\ Len(Modules) = NameStarts(RecordLines, "Start")

(***************************************************************************)
(* C3.  As claimed: whenever the name, the sel_rect record or the ref_text *)
(* record is missing from the text, construction of a footprint fails      *)
(* with MissingRequiredField.                                              *)
(***************************************************************************)
HasRecord(k) == \E i \in 1..Len(Text) : ~Text[i].blank /\ Text[i].key = k

C3_MissingAlwaysMissingRequiredField ==
    (pc \in {"done", "error"} /\ mod.start # 0
        /\ (~HasRecord("name") \/ ~HasRecord("sel_rect") \/ ~HasRecord("ref_text")))
    => (pc = "error" /\ err.kind = "MissingRequiredField")

\* The footprint under construction lacks a required field.
Lacking(m) == m.Name = <<>> \/ m.SelectionRect = <<>> \/ m.RefText = <<>>

Added(m) == \E i \in 1..Len(Modules) : Modules[i].start = m.start

(***************************************************************************)
(* C3, amended.  A footprint is added to the library only if its name is   *)
(* non-empty and its Body handled a sel_rect and a ref_text record; a      *)
(* footprint that lacks one of them when the run ends was never added and  *)
(* the run failed: with MissingRequiredField when its loops ran to their   *)
(* end, or else with the error an earlier record of it raised.             *)
(***************************************************************************)
C3_RequiredFields ==
    /\ \A i \in 1..Len(Modules) :
          /\ Modules[i].Name # <<>>
          /\ SeenInBody(i, "sel_rect")
          /\ SeenInBody(i, "ref_text")
    /\ (pc \in {"done", "error"} /\ mod.start # 0 /\ Lacking(mod)) =>
          /\ pc = "error"
          /\ ~Added(mod)
          /\ err.kind \in {"MissingRequiredField", "UnexpectedKey",
                           "MalformedRecord", "MalformedField"}
    /\ (pc = "error" /\ err.kind = "MissingRequiredField") =>
          /\ Lacking(mod)
          /\ ~Added(mod)
          /\ (File = <<>> \/ key \in {"units", "name"})

\* A footprint whose sel_rect was handled and whose ref_text never came.
C3_Witness ==
    /\ pc = "error"
    /\ err.kind = "MissingRequiredField"
    /\ mod.Name # <<>>
    /\ mod.SelectionRect # <<>>
    /\ mod.RefText = <<>>

(***************************************************************************)
(* C4.  Whenever the current record is the one of physical line k, the     *)
(* line the reader reports for it, Lineno - 1, is k.                       *)
(***************************************************************************)
C4_ReportedLineIsPhysicalLine == recLine # 0 => Lineno - 1 = recLine

(***************************************************************************)
(* C5.  A += B fails with DuplicateName whenever a footprint of A and a    *)
(* footprint of B have the same name, and leaves A as it was; otherwise    *)
(* it succeeds and A's list becomes A's footprints followed by B's.        *)
(***************************************************************************)
ShareName(a, b) ==
    \E i \in 1..Len(a), j \in 1..Len(b) : a[i].Name = b[j].Name

C5_Merge ==
    [][(pc = "done" /\ pc' # "done") =>
          IF ShareName(library.Modules, Modules)
          THEN pc' = "error" /\ err'.kind = "DuplicateName" /\ library' = library
          ELSE pc' = "merged" /\ library'.Modules = library.Modules \o Modules]_vars

\* A second file whose footprints were appended to those of the first.
C5_Witness ==
    /\ pc = "merged"
    /\ filesRead = 2
    /\ Modules # <<>>
    /\ Len(library.Modules) > Len(Modules)

(***************************************************************************)
(* C6.  In every state of a Library (built from one file, merged, or       *)
(* stripped) the names of its footprints are non-empty and pairwise        *)
(* distinct.                                                               *)
(***************************************************************************)
NamesDistinctNonEmpty(ms) ==
    /\ \A i \in 1..Len(ms) : ms[i].Name # <<>>
    /\ \A i, j \in 1..Len(ms) : i # j => ms[i].Name # ms[j].Name

C6_NamesDistinctNonEmpty ==
    /\ NamesDistinctNonEmpty(Modules)
    /\ NamesDistinctNonEmpty(library.Modules)

(***************************************************************************)
(* Pads: what the claims speak of.                                         *)
(***************************************************************************)
IsSmd(pin) == pin.DrillDiam = 0

HasRefPad(pin) == pin.TopPad # None \/ pin.BottomPad # None

\* The reference pad: the top pad, else the bottom pad.
RefPad(pin) == IF pin.TopPad # None THEN pin.TopPad[1] ELSE pin.BottomPad[1]

InGeneralExceptions(pin) ==
    \E i \in 1..Len(opts.rpexceptions) : Match(opts.rpexceptions[i], pin.ModName)

InCenterExceptions(pin) ==
    \E i \in 1..Len(opts.rcexceptions) : Match(opts.rcexceptions[i], pin.ModName)

\* The table of native shape codes, with rr the keyword for round-rect.
ShapeTable(code, rr) ==
    CASE code \in {PAD_ROUND, PAD_OCTAGON} -> "circle"
      [] code \in {PAD_SQUARE, PAD_RECT}   -> "rect"
      [] code = PAD_RRECT                  -> rr
      [] code = PAD_OVAL                   -> "oval"
      [] OTHER                             -> "rect"

(***************************************************************************)
(* C7.  As claimed: a surface-mount pin resolved with rounding mode none   *)
(* gets its shape keyword from the reference pad's shape code alone, and   *)
(* round-rect gives the keyword round-rect.                                *)
(***************************************************************************)
C7_NativeShapeRoundRectHyphen ==
    \A i \in 1..Len(sexp) :
        (IsSmd(pins[i]) /\ opts.roundedpads = None) =>
            sexp[i].shape = ShapeTable(RefPad(pins[i]).Shape, "round-rect")

(***************************************************************************)
(* C7, amended.  The same, with round-rect giving the keyword roundrect:   *)
(* round and octagon give circle, square and rect give rect, oval gives    *)
(* oval, every other code gives rect, whatever the exception lists, the    *)
(* designator and the coordinates are.                                     *)
(***************************************************************************)
C7_NativeShape ==
    \A i \in 1..Len(sexp) :
        (IsSmd(pins[i]) /\ opts.roundedpads = None) =>
            sexp[i].shape = ShapeTable(RefPad(pins[i]).Shape, "roundrect")

\* A round-rect pad at (0, 0) of a module both exception lists name.
C7_Witness ==
    /\ Len(sexp) = 1
    /\ IsSmd(pins[1])
    /\ opts.roundedpads = None
    /\ RefPad(pins[1]).Shape = PAD_RRECT
    /\ InGeneralExceptions(pins[1])
    /\ InCenterExceptions(pins[1])
    /\ pins[1].Coords = <<0, 0>>
    /\ sexp[1].shape = "roundrect"

(***************************************************************************)
(* C8.  A surface-mount pin resolved with rounding mode all or allbut1 is  *)
(* rect if the module name matches the general exceptions, or matches the  *)
(* centre exceptions while the pin is at (0, 0); otherwise oval in mode    *)
(* all, and in mode allbut1 rect for designator 1 and oval for the others. *)
(***************************************************************************)
C8_RoundedShape ==
    \A i \in 1..Len(sexp) :
        (IsSmd(pins[i]) /\ opts.roundedpads # None) =>
            sexp[i].shape =
                IF InGeneralExceptions(pins[i])
                   \/ (InCenterExceptions(pins[i]) /\ pins[i].Coords = <<0, 0>>)
                THEN "rect"
                ELSE IF opts.roundedpads = Some("all") THEN "oval"
                ELSE IF pins[i].Name = "1" THEN "rect" ELSE "oval"

\* A pin away from the centre of a module the centre exceptions name.
C8_Witness ==
    /\ Len(sexp) = 1
    /\ IsSmd(pins[1])
    /\ opts.roundedpads = Some("all")
    /\ InCenterExceptions(pins[1])
    /\ ~InGeneralExceptions(pins[1])
    /\ pins[1].Coords # <<0, 0>>
    /\ sexp[1].shape = "oval"

(***************************************************************************)
(* C9.  A through-hole pin that has a top pad is serialised as exactly one *)
(* pad entry, whichever of the inner and bottom pads are present: a        *)
(* non-plated hole (np_thru_hole, size the drill diameter on both axes, no *)
(* copper layer) iff the top pad has shape none and the bottom pad is      *)
(* absent or has shape none, and a thru_hole copper pad otherwise.         *)
(***************************************************************************)
C9_ThroughHole ==
    (pc \in {"serialized", "error"} /\ Len(pins) = 1
        /\ pins[1].DrillDiam > 0 /\ pins[1].TopPad # None)
    => /\ pc = "serialized"
       /\ Len(sexp) = 1
       /\ LET pin == pins[1]
              d == to_mm(pin.DrillDiam, pin.Units)[1]
              mechanical == /\ pin.TopPad[1].Shape = PAD_NONE
                            /\ (pin.BottomPad = None
                                \/ pin.BottomPad[1].Shape = PAD_NONE)
          IN  IF mechanical
              THEN /\ sexp[1].type = "np_thru_hole"
                   /\ sexp[1].size = <<d, d>>
                   /\ sexp[1].layers = <<"*.Mask">>
              ELSE /\ sexp[1].type = "thru_hole"
                   /\ sexp[1].layers = <<"*.Cu", "*.Mask">>

(***************************************************************************)
(* C10.  As claimed: two resolutions of surface-mount pins that agree on   *)
(* native shape, rotation, rounding mode, exception membership and         *)
(* coordinates return the same shape, whatever the designators are.        *)
(***************************************************************************)
FiveInputs(pin) ==
    <<RefPad(pin).Shape, pin.Angle, opts.roundedpads,
      InGeneralExceptions(pin), InCenterExceptions(pin), pin.Coords>>

C10_FunctionOfFive ==
    \A i, j \in 1..Len(sexp) :
        (IsSmd(pins[i]) /\ IsSmd(pins[j]) /\ FiveInputs(pins[i]) = FiveInputs(pins[j]))
        => sexp[i].shape = sexp[j].shape

SameShapeOnSix ==
    \A i, j \in 1..Len(sexp) :
        (/\ IsSmd(pins[i]) /\ IsSmd(pins[j])
         /\ FiveInputs(pins[i]) = FiveInputs(pins[j])
         /\ (pins[i].Name = "1") = (pins[j].Name = "1"))
        => sexp[i].shape = sexp[j].shape

(***************************************************************************)
(* C10, amended.  The shape resolved for a surface-mount pin is a function *)
(* of native shape, rotation, rounding mode, exception membership,         *)
(* coordinates and whether the designator is "1": two resolutions that     *)
(* agree on these return the same shape; and a resolution leaves the pins, *)
(* the footprint and the configuration as they were.                       *)
(***************************************************************************)
C10_FunctionOfSix ==
    /\ []SameShapeOnSix
    /\ [][UNCHANGED <<pins, opts, mod, Modules, library>>]_vars

\* Designators 2 and 10 of modules of different names, one resolution after
\* the other, in mode allbut1.
C10_Witness ==
    /\ Len(sexp) = 2
    /\ opts.roundedpads = Some("allbut1")
    /\ pins[1].Name = "2"
    /\ pins[2].Name = "10"
    /\ pins[1].ModName # pins[2].ModName
    /\ FiveInputs(pins[1]) = FiveInputs(pins[2])
    /\ sexp[1].shape = "oval"
    /\ sexp[2].shape = "oval"

(***************************************************************************)
(* C11.  For a footprint whose bounding box is (left, right, top, bottom), *)
(* add_courtyard(c) appends exactly one polyline, with the points          *)
(* (left-c, top+c), (right+c, top+c), (right+c, bottom-c),                 *)
(* (left-c, bottom-c), (left-c, top+c) in this order, four straight        *)
(* segments, the courtyard layer and millimetre units, and leaves the      *)
(* graphic elements that were there as they were.                          *)
(***************************************************************************)
C11_Courtyard ==
    [][(pc = "courtyard" /\ pc' = "courtyarded") =>
        LET bb == ModuleBoundingBox(mod).box
            l == bb[1][1]  r == bb[2][1]  t == bb[3][1]  b == bb[4][1]
            n == Len(mod.Graphics)
            cy == mod'.Graphics[n + 1]
        IN  /\ n >= 1
            /\ Len(mod'.Graphics) = n + 1
            /\ SubSeq(mod'.Graphics, 1, n) = mod.Graphics
            /\ cy.Points = << <<l - arg, t + arg>>, <<r + arg, t + arg>>,
                              <<r + arg, b - arg>>, <<l - arg, b - arg>>,
                              <<l - arg, t + arg>> >>
            /\ cy.Style = <<0, 0, 0, 0>>
            /\ cy.Layer = "F.CrtYd"
            /\ cy.Units = <<"MM">>]_vars

\* The box (-1, 1, 1, -1) mm with c = 0.5 mm: the corners are at 1.5 mm.
C11_Witness ==
    /\ pc = "courtyarded"
    /\ arg = HalfMillimetre
    /\ Len(mod.Graphics) = 2
    /\ ModuleBoundingBox([mod EXCEPT !.Graphics = <<mod.Graphics[1]>>]).box
         = << Some(-2 * HalfMillimetre), Some(2 * HalfMillimetre),
              Some(2 * HalfMillimetre), Some(-2 * HalfMillimetre) >>
    /\ mod.Graphics[2].Points =
         << <<-3 * HalfMillimetre, 3 * HalfMillimetre>>,
            <<3 * HalfMillimetre, 3 * HalfMillimetre>>,
            <<3 * HalfMillimetre, -3 * HalfMillimetre>>,
            <<-3 * HalfMillimetre, -3 * HalfMillimetre>>,
            <<-3 * HalfMillimetre, 3 * HalfMillimetre>> >>

\* The text the claim describes: "(" elem elem ... ")" at every depth, the
\* elements of a list one space apart.
RECURSIVE OneLine(_)
OneLine(t) ==
    IF IsList(t)
    THEN LET RECURSIVE Elems(_)
             Elems(i) ==
                 IF i > Len(t.list) THEN <<>>
                 ELSE (IF i = 1 THEN <<>> ELSE <<" ">>) \o OneLine(t.list[i]) \o Elems(i + 1)
         IN  <<"(">> \o Elems(1) \o <<")">>
    ELSE IF t.quoted THEN <<"\"", t.atom, "\"">>
    ELSE <<t.atom>>

(***************************************************************************)
(* C12.  The text written for a footprint tree is one parenthesised        *)
(* expression whose elements are, at every depth, exactly one space apart  *)
(* with no other whitespace, followed by exactly one newline, which is the *)
(* last character of the text.                                             *)
(***************************************************************************)
C12_OneLineThenNewline ==
    pc = "dumped" => ret = OneLine(arg) \o <<"\n">>

(***************************************************************************)
(* C13.  An output file exists for a footprint only if that footprint was  *)
(* parsed and serialised completely without error: at every point of the   *)
(* run, every file created so far holds the complete serialisation of its  *)
(* footprint (a footprint with a malformed text field has failed while it  *)
(* was parsed, so no file is ever opened for it).                          *)
(***************************************************************************)
C13_NoOutputForFailedFootprint ==
    \A i \in 1..Len(files) : files[i].written # None

\* Squared distance, cross and dot product of plane vectors.
Dist2(p, q) == (p[1] - q[1]) * (p[1] - q[1]) + (p[2] - q[2]) * (p[2] - q[2])

Cross(u, v) == u[1] * v[2] - u[2] * v[1]

Dot(u, v) == u[1] * v[1] + u[2] * v[2]

Twice(p) == <<2 * p[1], 2 * p[2]>>

PolylinesOf(ms) ==
    UNION { { ms[i].Graphics[j] : j \in { j \in 1..Len(ms[i].Graphics) :
                                            IsPolyline(ms[i].Graphics[j]) } } :
            i \in 1..Len(ms) }

AllPolylines == PolylinesOf(<<mod>>) \cup PolylinesOf(Modules) \cup PolylinesOf(library.Modules)

(***************************************************************************)
(* C15.  Every polyline that exists after parsing or courtyard synthesis   *)
(* has at least 2 points and one style entry per segment                   *)
(* (len(Style) = len(Points) - 1), and if it is closed its last point is   *)
(* its first.                                                              *)
(***************************************************************************)
C15_PolylineWellFormed ==
    \A pl \in AllPolylines :
        /\ Len(pl.Points) >= 2
        /\ Len(pl.Style) = Len(pl.Points) - 1
        /\ pl.Closed => pl.Points[Len(pl.Points)] = pl.Points[1]

Swapped(size) == <<size[2], size[1]>>

IsCopper(entry) == entry.type \in {"smd", "thru_hole"}

(***************************************************************************)
(* C16.  For a pin emitted as a copper pad, whatever its pad geometry, the *)
(* size emitted at rotation 90 and at rotation 270 is the size emitted at  *)
(* rotation 0 with the two extents exchanged, and the sizes emitted at     *)
(* rotations 0 and 180 are equal.  (pins holds one pin at 0, 90, 180, 270.)*)
(***************************************************************************)
C16_SizeSwapsWithRotation ==
    (pc = "serialized" /\ Len(sexp) = 4 /\ IsCopper(sexp[1])) =>
        /\ sexp[2].size = Swapped(sexp[1].size)
        /\ sexp[4].size = Swapped(sexp[1].size)
        /\ sexp[3].size = sexp[1].size

(***************************************************************************)
(* C17.  Pin.bounding_box() is, in millimetres,                            *)
(* (x - w/2, x + w/2, y + h/2, y - h/2) with (x, y) the pin's placement    *)
(* and (w, h) the size Pin.kicad_sexp() emits for the pin's pad.  Boxes    *)
(* count half nanometres and sizes nanometres, so w stands for w/2.        *)
(***************************************************************************)
C17_BoxIsEmittedSize ==
    \A i \in 1..Len(pins) :
        (i <= Len(sexp) /\ i <= Len(boxes)) =>
            LET x == to_mm(2 * pins[i].Coords[1], pins[i].Units)[1]
                y == to_mm(2 * pins[i].Coords[2], pins[i].Units)[1]
                w == sexp[i].size[1]
                h == sexp[i].size[2]
            IN  boxes[i] = << Some(x - w), Some(x + w), Some(y + h), Some(y - h) >>

IsPad(e) == "shape" \in DOMAIN e

\* The pad shapes a footprint is serialised with, or the raise.
PadShapes(m) ==
    LET r == ModuleKicadSexp(m, opts) IN
    IF r.raised # "" THEN <<r.raised>>
    ELSE LET pads == SelectSeq(r.sexp, IsPad) IN [k \in 1..Len(pads) |-> pads[k].shape]

PinsOf(m) == LET IsPin(g) == ~IsPolyline(g) IN SelectSeq(m.Graphics, IsPin)

\* pat occurs in name from position 1.
IsPrefix(pat, name) == Len(pat) <= Len(name) /\ \A i \in 1..Len(pat) : pat[i] = name[i]

NoPatternAtStart(name) ==
    /\ \A i \in 1..Len(opts.rpexceptions) : ~IsPrefix(opts.rpexceptions[i], name)
    /\ \A i \in 1..Len(opts.rcexceptions) : ~IsPrefix(opts.rcexceptions[i], name)

\* The footprint whose file was opened i-th.
Written(i) == library.Modules[i]

C18_AsParsed ==
    pc = "merged" =>
        \A i \in 1..Len(library.Modules) :
            \A k \in 1..Len(PinsOf(library.Modules[i])) :
                PinsOf(library.Modules[i])[k].ModName = library.Modules[i].Name

C18_StripKeepsShapes ==
    (pc = "merged" /\ pc' = "stripped") =>
        /\ Len(library'.Modules) = Len(library.Modules)
        /\ \A i \in 1..Len(library.Modules) :
              PadShapes(library'.Modules[i]) = PadShapes(library.Modules[i])

C18_OnlyAtStart ==
    \A i \in 1..Len(files) :
        (files[i].written # None /\ opts.roundedpads # None) =>
            LET ps == PinsOf(Written(i))
                shapes == PadShapes(Written(i))
            IN  \A k \in 1..Len(ps) :
                    NoPatternAtStart(ps[k].ModName) =>
                        shapes[k] = IF opts.roundedpads = Some("allbut1") /\ ps[k].Name = "1"
                                    THEN "rect" ELSE "oval"

(***************************************************************************)
(* C18.  Rounding exceptions are tested against the module name as it was  *)
(* parsed, at its start only: when the library has been merged every pin   *)
(* carries its footprint's name; the strip pass, which changes footprint   *)
(* names, changes no pad shape any footprint is serialised with; and a pad *)
(* of a footprint whose parsed name no pattern starts is rounded, whatever *)
(* patterns occur inside the name.                                         *)
(***************************************************************************)
C18_ExceptionsOnParsedName ==
    /\ []C18_AsParsed
    /\ [][C18_StripKeepsShapes]_vars
    /\ []C18_OnlyAtStart

\* A footprint parsed as AL and stripped to A, excepted by the pattern AL
\* that no longer matches its name: its pads, written after the strip, are
\* rect in mode all.
C18_Witness ==
    /\ pc = "output"
    /\ opts.roundedpads = Some("all")
    /\ opts.rpexceptions = << <<"A", "L">> >>
    /\ Len(files) >= 1
    /\ files[1].path = <<"A">>
    /\ files[1].written # None
    /\ PinsOf(Written(1))[1].ModName = <<"A", "L">>
    /\ PadShapes(Written(1)) = <<"rect", "rect">>

\* A footprint parsed as LAM with the pattern A, which occurs inside the
\* name only: its pads are rounded.
C18_WitnessInterior ==
    /\ pc = "output"
    /\ opts.roundedpads = Some("all")
    /\ opts.rpexceptions = << <<"A">> >>
    /\ Len(files) >= 1
    /\ PinsOf(Written(1))[1].ModName = <<"L", "A", "M">>
    /\ PadShapes(Written(1)) = <<"oval", "oval">>

\* The quote at position i of s follows an odd number of backslashes.
Escaped(s, i) ==
    LET run == CHOOSE n \in 0..(i - 1) :
                  /\ \A j \in (i - n)..(i - 1) : s[j] = "\\"
                  /\ (i - n - 1 >= 1 => s[i - n - 1] # "\\")
    IN  run % 2 = 1

\* The positions after the opening quote of quotes that are not escaped.
ClosingQuotes(s) == { i \in 2..Len(s) : s[i] = "\"" /\ ~Escaped(Tail(s), i - 1) }

C19_Bare ==
    arg[1] # "\"" =>
        /\ ret.token = SubSeq(arg, 1, FirstIn(arg, {" "}) - 1)
        /\ ret.consumed = Len(ret.token) + 1

C19_Quoted ==
    (arg[1] = "\"" /\ ClosingQuotes(arg) # {}) =>
        LET q == Min(ClosingQuotes(arg))
            ws == FirstIn(Drop(arg, q), Chars \ Whitespace) - 1
        IN  /\ ret.token = SubSeq(arg, 2, q - 1)
            /\ ret.consumed = (q - 1) + 1 + ws
            /\ pc = "sliced" => value = Drop(arg, q + ws)

(***************************************************************************)
(* C19.  parse_string (s) of a non-empty s returns the token and the       *)
(* length consumed: of an s not starting with a double quote, the text     *)
(* before the first space and its length plus one; of an s starting with   *)
(* one, the text up to the next double quote that is not escaped by a      *)
(* backslash, and the index of that quote plus one plus the whitespace     *)
(* after it, so that s[consumed:] holds the remaining fields.              *)
(***************************************************************************)
C19_ParseString == pc \in {"named", "sliced"} => C19_Bare /\ C19_Quoted

====
